---- MODULE Spec2Model ----
(***************************************************************************)
(* A model of the Element / MassFunction algebra of THEGAME                *)
(* (thegame/element.py, thegame/massfunction.py).                          *)
(*                                                                         *)
(* Masses are Python floats in the source.  They are modelled as exact     *)
(* rationals [n, d] in lowest terms; round(x, 6), the comparison with      *)
(* MassFunction.precision and the divisions are computed on the rationals. *)
(* A focal map (the dict self.focals) is a function from element records   *)
(* to rationals; a missing key is an element outside its DOMAIN, which is  *)
(* different from a key whose mass is 0.                                    *)
(***************************************************************************)
EXTENDS Integers, Naturals, Sequences, FiniteSets, TLC

(***************************************************************************)
(* Exact rational arithmetic (the float operations of the source).         *)
(***************************************************************************)
RECURSIVE GCD(_, _)
GCD(x, y) == IF y = 0 THEN x ELSE GCD(y, x % y)

Abs(x) == IF x < 0 THEN -x ELSE x

\* The rational n/d in lowest terms, d > 0.
R(n, d) ==
    LET g == GCD(Abs(n), Abs(d))
        s == IF d < 0 THEN -1 ELSE 1
    IN  [n |-> s * (n \div g), d |-> s * (d \div g)]

RZero == [n |-> 0, d |-> 1]
ROne == [n |-> 1, d |-> 1]

RAdd(x, y) ==
    LET g == GCD(x.d, y.d)
        fx == y.d \div g
        fy == x.d \div g
    IN  R(x.n * fx + y.n * fy, x.d * fx)

RNeg(x) == [n |-> -x.n, d |-> x.d]

RSub(x, y) == RAdd(x, RNeg(y))

RMul(x, y) ==
    LET g1 == GCD(Abs(x.n), y.d)
        g2 == GCD(Abs(y.n), x.d)
    IN  IF x.n = 0 \/ y.n = 0 THEN RZero
        ELSE R((x.n \div g1) * (y.n \div g2), (x.d \div g2) * (y.d \div g1))

\* x / y for y # 0.
RDiv(x, y) == RMul(x, IF y.n < 0 THEN [n |-> -y.d, d |-> -y.n] ELSE [n |-> y.d, d |-> y.n])

\* a/b < c/d for b, d > 0, by comparing integer parts and then the
\* reciprocals of the fractional parts (no cross product is formed).
RECURSIVE FracLess(_, _, _, _)
FracLess(a, b, c, d) ==
    LET qa == a \div b
        qc == c \div d
        ra == a % b
        rc == c % d
    IN  IF qa # qc THEN qa < qc
        ELSE IF rc = 0 THEN FALSE
        ELSE IF ra = 0 THEN TRUE
        ELSE FracLess(d, rc, b, ra)

RLt(x, y) == FracLess(x.n, x.d, y.n, y.d)
RLe(x, y) == ~RLt(y, x)

\* The first k decimal digits of r/d (0 <= r < d) as an integer, and the
\* remainder left after them.
RECURSIVE Digits(_, _, _, _)
Digits(r, d, k, acc) ==
    IF k = 0 THEN <<acc, r>>
    ELSE Digits((r * 10) % d, d, k - 1, acc * 10 + ((r * 10) \div d))

DecimalPlaces == 6
Million == 1000000

\* round(x, 6) of Python 3: the nearest multiple of 10^-6, a tie going to
\* the even multiple.  The result is the rational again.
Round6(x) ==
    LET a == Abs(x.n)
        whole == a \div x.d
        dg == Digits(a % x.d, x.d, DecimalPlaces, 0)
        micro == dg[1]
        rest == dg[2]
        up == \/ 2 * rest > x.d
              \/ 2 * rest = x.d /\ micro % 2 = 1
        frac == R(micro + (IF up THEN 1 ELSE 0), Million)
        mag == RAdd([n |-> whole, d |-> 1], frac)
    IN  IF x.n < 0 THEN RNeg(mag) ELSE mag

RECURSIVE SumOver(_, _)
\* Sum of the values of f over the keys in S (a Python accumulation loop).
SumOver(f, S) ==
    IF S = {} THEN RZero
    ELSE LET k == CHOOSE k \in S : TRUE
         IN  RAdd(f[k], SumOver(f, S \ {k}))

(***************************************************************************)
(* element.py: DiscreteElement, a bitset over a frame of `size` states.    *)
(***************************************************************************)
RECURSIVE BitAnd(_, _)
BitAnd(x, y) ==
    IF x = 0 \/ y = 0 THEN 0
    ELSE 2 * BitAnd(x \div 2, y \div 2) + (IF x % 2 = 1 /\ y % 2 = 1 THEN 1 ELSE 0)

RECURSIVE BitOr(_, _)
BitOr(x, y) ==
    IF x = 0 THEN y
    ELSE IF y = 0 THEN x
    ELSE 2 * BitOr(x \div 2, y \div 2) + (IF x % 2 = 1 \/ y % 2 = 1 THEN 1 ELSE 0)

RECURSIVE PopCount(_)
PopCount(x) == IF x = 0 THEN 0 ELSE (x % 2) + PopCount(x \div 2)

Pow2(k) == 2 ^ k

\* The element built by DiscreteElement(size, number) for a valid pair.
DiscreteElement(size, number) == [size |-> size, number |-> number]

\* The property cardinal: the population count of the encoding.
cardinal(e) == PopCount(e.number)

\* A variant that keeps the first operand.
conjunction_keeping_first(e1, e2) == DiscreteElement(e1.size, e1.number)

conjunction(e1, e2) == DiscreteElement(e1.size, BitAnd(e1.number, e2.number))

disjunction(e1, e2) == DiscreteElement(e1.size, BitOr(e1.number, e2.number))

get_compatible_empty_element(e) == DiscreteElement(e.size, 0)

get_compatible_complete_element(e) == DiscreteElement(e.size, Pow2(e.size) - 1)

element_is_empty(e) == e.number = 0

element_is_compatible(e1, e2) == e1.size = e2.size

(***************************************************************************)
(* element.py: the DiscreteElement object with its attributes _size,       *)
(* _number and the cache _card (-1 until the cardinal is known).  The      *)
(* field card is the attribute of that name: {} while the object has none. *)
(***************************************************************************)
Object(size, number, card) ==
    [kind |-> "DiscreteElement", _size |-> size, _number |-> number,
     _card |-> card, card |-> {}]

\* The outcome of a call that builds an element: the object or an exception.
Built(obj) == [err |-> "none", obj |-> obj]
Failed(E) == [err |-> E, obj |-> Object(0, 0, 0)]

\* A variant that lets the number 2^size through.
DiscreteElement_init_up_to_power(size, number) ==
    IF size <= 0 THEN Failed("ValueError")
    ELSE IF number = 0 THEN Built(Object(size, 0, 0))
    ELSE IF number = Pow2(size) - 1 THEN Built(Object(size, number, size))
    ELSE IF ~(0 <= number /\ number <= Pow2(size))
         THEN Failed("IncompatibleSizeAndNumberError")
    ELSE Built(Object(size, number, -1))

\* DiscreteElement.__init__(size, number)
DiscreteElement_init(size, number) ==
    IF size <= 0 THEN Failed("ValueError")
    ELSE IF number = 0 THEN Built(Object(size, 0, 0))
    ELSE IF number = Pow2(size) - 1 THEN Built(Object(size, number, size))
    ELSE IF ~(0 <= number /\ number < Pow2(size))
         THEN Failed("IncompatibleSizeAndNumberError")
    ELSE Built(Object(size, number, -1))

\* The property cardinal of an object: the cache, or the count of the bits
\* (which the property then stores in the cache).
object_cardinal(o) == IF o._card # -1 THEN o._card ELSE PopCount(o._number)

\* A variant that hands the cache of self to the result as it is.
WithCard_of_self(r, o) ==
    IF r.err = "none" /\ o._card # -1
    THEN Built([r.obj EXCEPT !._card = o._card])
    ELSE r

\* The end of opposite(): the cardinal, when self knows its own, is written
\* to the attribute card of the result.
WithCard(r, o) ==
    IF r.err = "none" /\ o._card # -1
    THEN Built([r.obj EXCEPT !.card = {o._size - o._card}])
    ELSE r

opposite(o) == WithCard(DiscreteElement_init(o._size, Pow2(o._size) - 1 - o._number), o)

object_is_compatible(a, b) ==
    b.kind = "DiscreteElement" /\ a._size = b._size

\* The decorator check_elements_compatibility on self and one argument.
check_elements_compatibility(a, b) ==
    /\ object_is_compatible(a, a) /\ object_is_compatible(a, b)
    /\ object_is_compatible(b, a) /\ object_is_compatible(b, b)

object_conjunction(a, b) ==
    IF ~check_elements_compatibility(a, b) THEN Failed("IncompatibleElementsError")
    ELSE DiscreteElement_init(a._size, BitAnd(a._number, b._number))

object_disjunction(a, b) ==
    IF ~check_elements_compatibility(a, b) THEN Failed("IncompatibleElementsError")
    ELSE DiscreteElement_init(a._size, BitOr(a._number, b._number))

\* self.conjunction(element.opposite())
ConjunctionWith(a, complement) ==
    IF complement.err # "none" THEN complement
    ELSE object_conjunction(a, complement.obj)

exclusion(a, b) == ConjunctionWith(a, opposite(b))

\* A variant that compares the encodings only.
equals_on_encoding(a, b) == a._number = b._number

\* equals, which == calls.
equals(a, b) ==
    IF ~object_is_compatible(a, b) THEN FALSE
    ELSE a._number = b._number

\* __hash__
hash(o) == o._number

\* Strings are sequences of one-character strings.
Bit(b) == IF b = 1 THEN "1" ELSE "0"

\* bin(n)[2:] for n >= 0.
RECURSIVE bin(_)
bin(n) == IF n < 2 THEN <<Bit(n)>> ELSE Append(bin(n \div 2), Bit(n % 2))

\* "0" * k (the empty string for k <= 0).
Zeros(k) == [i \in 1..k |-> "0"]

\* A variant without the leading zeros.
str_unpadded(o) == bin(o._number)

\* __str__
str(o) == Zeros(o._size - Len(bin(o._number))) \o bin(o._number)

Reversed(bstr) == [i \in 1..Len(bstr) |-> bstr[Len(bstr) + 1 - i]]

\* bstr without the line feeds int() strips at both ends.
RECURSIVE Stripped(_)
Stripped(bstr) ==
    IF bstr = << >> THEN bstr
    ELSE IF Head(bstr) = "\n" THEN Stripped(Tail(bstr))
    ELSE IF bstr[Len(bstr)] = "\n" THEN Stripped(SubSeq(bstr, 1, Len(bstr) - 1))
    ELSE bstr

\* int(digits, 2) for a string of binary digits.
RECURSIVE FromBinary(_)
FromBinary(digits) ==
    IF digits = << >> THEN 0
    ELSE 2 * FromBinary(SubSeq(digits, 1, Len(digits) - 1))
         + (IF digits[Len(digits)] = "1" THEN 1 ELSE 0)

\* bstr.count('1')
CountOnes(bstr) == Cardinality({i \in 1..Len(bstr) : bstr[i] = "1"})

Contains(bstr, c) == \E i \in 1..Len(bstr) : bstr[i] = c

\* re.compile(r'^[0-1]+$').search(bstr): binary digits, at least one, and
\* then the end of the string or one line feed that ends it.
MatchesBinary(bstr) ==
    LET body == IF bstr # << >> /\ bstr[Len(bstr)] = "\n"
                THEN SubSeq(bstr, 1, Len(bstr) - 1) ELSE bstr
    IN  body # << >> /\ \A i \in 1..Len(body) : body[i] \in {"0", "1"}

factory_from_str_unsafe(bstr, bigendian) ==
    IF ~Contains(bstr, "1") THEN Built(Object(Len(bstr), 0, 0))
    ELSE IF ~Contains(bstr, "0")
         THEN Built(Object(Len(bstr), Pow2(Len(bstr)) - 1, Len(bstr)))
    ELSE Built(Object(Len(bstr),
                      IF bigendian THEN FromBinary(Stripped(bstr))
                      ELSE FromBinary(Stripped(Reversed(bstr))),
                      CountOnes(bstr)))

factory_from_str(bstr, bigendian) ==
    IF ~MatchesBinary(bstr) THEN Failed("ValueError")
    ELSE factory_from_str_unsafe(bstr, bigendian)

\* ref_list.index(state), counted from 0.
IndexOf(ref_list, state) ==
    (CHOOSE i \in 1..Len(ref_list) :
        ref_list[i] = state /\ \A j \in 1..(i - 1) : ref_list[j] # state) - 1

RECURSIVE SumOfBits(_, _)
SumOfBits(ref_list, st) ==
    IF st = {} THEN 0
    ELSE LET state == CHOOSE x \in st : TRUE
         IN  Pow2(IndexOf(ref_list, state)) + SumOfBits(ref_list, st \ {state})

\* cls(len(ref_list)) and then the bit of every state of st = set(states).
factory_from_ref_list_unsafe(ref_list, st) ==
    IF DiscreteElement_init(Len(ref_list), 0).err # "none"
    THEN DiscreteElement_init(Len(ref_list), 0)
    ELSE Built(Object(Len(ref_list), SumOfBits(ref_list, st), Cardinality(st)))

factory_from_ref_list(ref_list, st) ==
    IF \E i, j \in 1..Len(ref_list) : i # j /\ ref_list[i] = ref_list[j]
    THEN Failed("ValueError")
    ELSE IF \E state \in st : ~Contains(ref_list, state) THEN Failed("ValueError")
    ELSE factory_from_ref_list_unsafe(ref_list, st)

(***************************************************************************)
(* massfunction.py: the focal map and the methods that read or change it.  *)
(***************************************************************************)
\* MassFunction(): no focal element.
EmptyFocals == [e \in {} |-> RZero]

\* MassFunction.precision = 0.000001
precision == R(1, Million)

\* self.focals[key] = value (a new key or an overwrite).
SetItem(F, key, value) ==
    [e \in DOMAIN F \cup {key} |-> IF e = key THEN value ELSE F[e]]

\* focals.pop(key, None)
Pop(F, key) == [e \in DOMAIN F \ {key} |-> F[e]]

\* add_mass with one (element, mass) pair whose element is compatible.
add_mass(F, key, value) ==
    IF key \in DOMAIN F THEN [F EXCEPT ![key] = RAdd(@, value)]
    ELSE SetItem(F, key, value)

\* remove_mass with one (element, mass) pair whose element is compatible.
remove_mass(F, key, value) ==
    IF key \in DOMAIN F THEN [F EXCEPT ![key] = RSub(@, value)]
    ELSE SetItem(F, key, RNeg(value))

\* A variant with a much coarser threshold than precision.
clean_coarse(F) == [e \in {k \in DOMAIN F : RLe(R(3, 10), F[k])} |-> F[e]]

\* A variant that also removes the entries equal to precision.
clean_above_precision(F) == [e \in {k \in DOMAIN F : RLt(precision, F[k])} |-> F[e]]

\* clean(): the new dict holds the entries with value >= precision.
clean(F) == [e \in {k \in DOMAIN F : RLe(precision, F[k])} |-> F[e]]

_sum(F) == SumOver(F, DOMAIN F)

\* A variant that leaves the masses as they are.
normalise_skipped(F) == F

normalise(F) ==
    LET s == _sum(F)
    IN  IF s # RZero THEN [e \in DOMAIN F |-> RDiv(F[e], s)] ELSE F

mf_is_empty(F) == _sum(F) = RZero

\* next(iter(self.focals)): some key of the dict.  Every focal map of the
\* model holds elements of one frame, and only the frame of the key is used.
AnyFocal(F) == CHOOSE e \in DOMAIN F : TRUE

mf_is_compatible(F, G) ==
    IF mf_is_empty(F) \/ mf_is_empty(G) THEN TRUE
    ELSE element_is_compatible(AnyFocal(F), AnyFocal(G))

has_valid_values(F) == \A e \in DOMAIN F : RLe(RZero, F[e]) /\ RLe(F[e], ROne)

has_valid_sum(F) ==
    /\ RLe(RSub(ROne, precision), _sum(F))
    /\ RLe(_sum(F), RAdd(ROne, precision))

is_valid(F) == has_valid_values(F) /\ has_valid_sum(F)

\* m / mass / __getitem__: the stored mass, 0 for a missing key.
mass(F, e) == IF e \in DOMAIN F THEN F[e] ELSE RZero

\* MassFunction.__eq__
mf_eq(F, G) ==
    /\ \A e \in DOMAIN F :
          /\ (e \notin DOMAIN G => F[e] = RZero)
          /\ Round6(mass(G, e)) = Round6(F[e])
    /\ \A e \in DOMAIN G :
          /\ (e \notin DOMAIN F => G[e] = RZero)
          /\ Round6(mass(F, e)) = Round6(G[e])

specificity(F) ==
    LET S == {e \in DOMAIN F : cardinal(e) > 0}
        term == [e \in S |-> RDiv(F[e], [n |-> cardinal(e), d |-> 1])]
    IN  Round6(SumOver(term, S))

(***************************************************************************)
(* massfunction.py: the decision criteria and get_min / get_max.           *)
(***************************************************************************)
\* Element.is_subset: e1 is a subset of e2.
is_subset(e1, e2) ==
    IF ~element_is_compatible(e1, e2) THEN FALSE
    ELSE conjunction(e1, e2) = e1

\* The sums of bel, pl and q: the masses of the focal elements in S.
SumOfFocals(F, S) == Round6(SumOver(F, S))

bel(F, element) ==
    IF element_is_empty(element) THEN RZero
    ELSE IF mf_is_empty(F) THEN RZero
    ELSE IF ~element_is_compatible(element, AnyFocal(F)) THEN RZero
    ELSE SumOfFocals(F, {focal \in DOMAIN F :
                            ~element_is_empty(focal) /\ is_subset(focal, element)})

\* value * focal.conjunction_unsafe(element).cardinal / focal.cardinal
PignisticShare(value, focal, element) ==
    RDiv(RMul(value, [n |-> cardinal(conjunction(focal, element)), d |-> 1]),
         [n |-> cardinal(focal), d |-> 1])

betP(F, element) ==
    IF element_is_empty(element) THEN RZero
    ELSE IF mf_is_empty(F) THEN RZero
    ELSE IF ~element_is_compatible(element, AnyFocal(F)) THEN RZero
    ELSE Round6(SumOver([focal \in {f \in DOMAIN F : ~element_is_empty(f)} |->
                            PignisticShare(F[focal], focal, element)],
                        {f \in DOMAIN F : ~element_is_empty(f)}))

pl(F, element) ==
    IF mf_is_empty(F) THEN RZero
    ELSE IF element_is_empty(element) THEN _sum(F)
    ELSE IF ~element_is_compatible(element, AnyFocal(F)) THEN RZero
    ELSE SumOfFocals(F, {focal \in DOMAIN F :
                            ~element_is_empty(conjunction(element, focal))})

(***************************************************************************)
(* The float results of bel, betP and pl.  The masses are doubles and the  *)
(* loops accumulate doubles; a number half-way between two multiples of    *)
(* 10^-6 is not a double, so the accumulated result lies on one side of it *)
(* and round(result, 6) goes to that side.  Two loops that add the same    *)
(* doubles in the same order (terms of 0.0 apart) land on the same side;   *)
(* betP adds value * c / k, which is the double of value only if the       *)
(* product and the division are exact (c = 0, or c and k powers of two).   *)
(***************************************************************************)
Sides == {"below", "above"}

\* x is exactly half-way between two multiples of 10^-6.
HalfWay(x) ==
    LET a == Abs(x.n)
    IN  2 * Digits(a % x.d, x.d, DecimalPlaces, 0)[2] = x.d

\* round(result, 6) for a double on the given side of the exact result x.
RoundFloat(x, side) ==
    IF ~HalfWay(x) THEN Round6(x)
    ELSE IF side = "above" THEN RAdd(x, R(1, 2 * Million))
    ELSE RSub(x, R(1, 2 * Million))

\* The loop of bel, betP or pl is reached: no early return.
ReachesLoop(F, element) ==
    /\ ~element_is_empty(element)
    /\ ~mf_is_empty(F)
    /\ element_is_compatible(element, AnyFocal(F))

IsPowerOfTwo(k) == \E i \in 0..k : k = Pow2(i)

\* Every term value * c / k of betP is computed exactly.
ExactShares(F, element) ==
    \A focal \in DOMAIN F :
        \/ element_is_empty(focal)
        \/ F[focal] = RZero
        \/ cardinal(conjunction(focal, element)) = 0
        \/ /\ IsPowerOfTwo(cardinal(conjunction(focal, element)))
           /\ IsPowerOfTwo(cardinal(focal))

\* sides = <<side of the sums of stored masses, side of the sum of shares>>
bel_float(F, element, sides) ==
    IF ~ReachesLoop(F, element) THEN bel(F, element)
    ELSE RoundFloat(SumOver(F, {focal \in DOMAIN F :
                                   ~element_is_empty(focal) /\ is_subset(focal, element)}),
                    sides[1])

betP_float(F, element, sides) ==
    IF ~ReachesLoop(F, element) THEN betP(F, element)
    ELSE RoundFloat(SumOver([focal \in {f \in DOMAIN F : ~element_is_empty(f)} |->
                                PignisticShare(F[focal], focal, element)],
                            {f \in DOMAIN F : ~element_is_empty(f)}),
                    IF ExactShares(F, element) THEN sides[1] ELSE sides[2])

pl_float(F, element, sides) ==
    IF ~ReachesLoop(F, element) THEN pl(F, element)
    ELSE RoundFloat(SumOver(F, {focal \in DOMAIN F :
                                   ~element_is_empty(conjunction(element, focal))}),
                    sides[1])

commonality(F, element) ==
    IF mf_is_empty(F) THEN RZero
    ELSE IF element_is_empty(element) THEN _sum(F)
    ELSE IF ~element_is_compatible(element, AnyFocal(F)) THEN RZero
    ELSE SumOfFocals(F, {focal \in DOMAIN F : is_subset(element, focal)})

\* criterion(e) for the bound method m.<criterion> of the mass function F.
Criterion(criterion, F, e) ==
    CASE criterion = "mass" -> mass(F, e)
      [] criterion = "bel" -> bel(F, e)
      [] criterion = "betP" -> betP(F, e)
      [] criterion = "pl" -> pl(F, e)
      [] criterion = "q" -> commonality(F, e)

\* 0 < e.cardinal <= max_card
IsCandidate(e, max_card) == 0 < cardinal(e) /\ cardinal(e) <= max_card

\* One turn of the loop of get_min / get_max on a candidate e of value
\* newCandidate; better is newCandidate < currentMin (> currentMax), the
\* current extremum being the value of the couples kept so far.
Kept(extrema, e, newCandidate, better) ==
    IF extrema = << >> THEN << <<e, newCandidate>> >>
    ELSE IF newCandidate = extrema[1][2] THEN Append(extrema, <<e, extrema[1][2]>>)
    ELSE IF better THEN << <<e, newCandidate>> >>
    ELSE extrema

\* A variant that keeps the first of the tied candidates only.
RECURSIVE MinimaLoop_first_only(_, _, _, _, _)
MinimaLoop_first_only(criterion, F, max_card, elements, minima) ==
    IF elements = << >> THEN minima
    ELSE MinimaLoop_first_only(criterion, F, max_card, Tail(elements),
            IF ~IsCandidate(Head(elements), max_card) THEN minima
            ELSE IF minima # << >>
                    /\ ~RLt(Criterion(criterion, F, Head(elements)), minima[1][2])
                 THEN minima
            ELSE << <<Head(elements), Criterion(criterion, F, Head(elements))>> >>)

\* The loop of get_min over the elements still to visit.
RECURSIVE MinimaLoop(_, _, _, _, _)
MinimaLoop(criterion, F, max_card, elements, minima) ==
    IF elements = << >> THEN minima
    ELSE MinimaLoop(criterion, F, max_card, Tail(elements),
            IF ~IsCandidate(Head(elements), max_card) THEN minima
            ELSE Kept(minima, Head(elements), Criterion(criterion, F, Head(elements)),
                      minima # << >>
                        /\ RLt(Criterion(criterion, F, Head(elements)), minima[1][2])))

\* The loop of get_max.
RECURSIVE MaximaLoop(_, _, _, _, _)
MaximaLoop(criterion, F, max_card, elements, maxima) ==
    IF elements = << >> THEN maxima
    ELSE MaximaLoop(criterion, F, max_card, Tail(elements),
            IF ~IsCandidate(Head(elements), max_card) THEN maxima
            ELSE Kept(maxima, Head(elements), Criterion(criterion, F, Head(elements)),
                      maxima # << >>
                        /\ RLt(maxima[1][2], Criterion(criterion, F, Head(elements)))))

\* The list of couples (element, value) a call returns, or its exception.
Couples(items) == [err |-> "none", value |-> [kind |-> "list", items |-> items]]
NoCouples(E) == [err |-> E, value |-> [kind |-> "none"]]

\* MassFunction.get_min(m.<criterion>, max_card, elements)
get_min(criterion, F, max_card, elements) ==
    IF max_card <= 0 THEN NoCouples("ValueError")
    ELSE Couples(MinimaLoop(criterion, F, max_card, elements, << >>))

\* MassFunction.get_max(m.<criterion>, max_card, elements)
get_max(criterion, F, max_card, elements) ==
    IF max_card <= 0 THEN NoCouples("ValueError")
    ELSE Couples(MaximaLoop(criterion, F, max_card, elements, << >>))

(***************************************************************************)
(* Python values handed to the combination methods, and their outcomes.    *)
(***************************************************************************)
\* A MassFunction instance with focal map F.
MF(F) == [kind |-> "MassFunction", focals |-> F]

\* A value that is not a MassFunction (the tests pass the float 0.5).
NotAMassFunction == [kind |-> "float", focals |-> EmptyFocals]

\* A call that returned a mass function with focal map F.
Ok(F) == [err |-> "none", focals |-> F]

\* A call that raised the exception E.
Raise(E) == [err |-> E, focals |-> EmptyFocals]

Indices(seq) == 1..Len(seq)

\* The decorators of the safe methods; each is TRUE when it lets the call
\* through.  args[1] is self.
check_arguments_are_mass_functions(args) ==
    /\ Len(args) >= 2
    /\ \A i \in Indices(args) : args[i].kind = "MassFunction"

\* A variant that looks at the arguments only, not at self.
check_mass_function_are_not_empty_but_self(args) ==
    \A i \in Indices(args) \ {1} : ~mf_is_empty(args[i].focals)

check_mass_function_are_not_empty(args) ==
    \A i \in Indices(args) : ~mf_is_empty(args[i].focals)

check_mass_functions_compatibility(args) ==
    \A i, j \in Indices(args) :
        i # j => mf_is_compatible(args[i].focals, args[j].focals)

\* The three decorators in the order they are stacked on every safe rule:
\* the exception of the first one that fails, "none" when all pass.
SafeChecks(args) ==
    IF ~check_arguments_are_mass_functions(args) THEN "TypeError"
    ELSE IF ~check_mass_function_are_not_empty(args) THEN "EmptyMassFunctionError"
    ELSE IF ~check_mass_functions_compatibility(args) THEN "IncompatibleMassFunctionsError"
    ELSE "none"

\* A safe method: the exception of its decorators, or else what its body does.
Checked(e, body) == IF e # "none" THEN Raise(e) ELSE body

\* An argument of add_mass / remove_mass: a pair (element, value) whose
\* value is a number, or something else (numeric is FALSE: no index 1, or a
\* value that is neither int nor float).
Pair(element, value) == [element |-> element, value |-> value, numeric |-> TRUE]
Malformed == [element |-> DiscreteElement(2, 0), value |-> RZero, numeric |-> FALSE]

\* The decorators of add_mass and remove_mass; each is TRUE when it lets
\* the call through.
check_focal_elements_validity(focal_elements) ==
    \A i \in Indices(focal_elements) : focal_elements[i].numeric

check_focal_elements_compatibility(focal_elements) ==
    \A i, j \in Indices(focal_elements) :
        element_is_compatible(focal_elements[i].element, focal_elements[j].element)

check_focal_elements_compatibility_with_mass_function(F, focal_elements) ==
    \A i \in Indices(focal_elements) :
        \A element \in DOMAIN F :
            element_is_compatible(element, focal_elements[i].element)

\* The three decorators in the order they are stacked.
FocalChecks(F, focal_elements) ==
    IF ~check_focal_elements_validity(focal_elements) THEN "ValueError"
    ELSE IF ~check_focal_elements_compatibility(focal_elements)
         THEN "IncompatibleElementsInAMassFunctionError"
    ELSE IF ~check_focal_elements_compatibility_with_mass_function(F, focal_elements)
         THEN "IncompatibleElementsInAMassFunctionError"
    ELSE "none"

\* The loops of add_mass and remove_mass over the given pairs.
RECURSIVE AddEach(_, _)
AddEach(F, focal_elements) ==
    IF focal_elements = << >> THEN F
    ELSE AddEach(add_mass(F, Head(focal_elements).element, Head(focal_elements).value),
                 Tail(focal_elements))

RECURSIVE RemoveEach(_, _)
RemoveEach(F, focal_elements) ==
    IF focal_elements = << >> THEN F
    ELSE RemoveEach(remove_mass(F, Head(focal_elements).element,
                                Head(focal_elements).value),
                    Tail(focal_elements))

\* What a mutating call leaves: its exception and the focal map of self
\* after it.
Left(E, F) == [err |-> E, focals |-> F]

\* A variant that checks each pair when its turn comes, after the pairs
\* before it were added.
RECURSIVE add_masses_one_by_one(_, _)
add_masses_one_by_one(F, focal_elements) ==
    IF focal_elements = << >> THEN Left("none", F)
    ELSE IF FocalChecks(F, <<Head(focal_elements)>>) # "none"
         THEN Left(FocalChecks(F, <<Head(focal_elements)>>), F)
    ELSE add_masses_one_by_one(
            add_mass(F, Head(focal_elements).element, Head(focal_elements).value),
            Tail(focal_elements))

\* self.add_mass(*focal_elements)
add_masses(F, focal_elements) ==
    IF FocalChecks(F, focal_elements) # "none"
    THEN Left(FocalChecks(F, focal_elements), F)
    ELSE Left("none", AddEach(F, focal_elements))

\* self.remove_mass(*focal_elements)
remove_masses(F, focal_elements) ==
    IF FocalChecks(F, focal_elements) # "none"
    THEN Left(FocalChecks(F, focal_elements), F)
    ELSE Left("none", RemoveEach(F, focal_elements))

\* The double loop shared by the cross-product rules: the mass m1*m2 of each
\* pair of focal elements is accumulated (add_mass) on Op(e1, e2).
ConjunctiveProduct(F, G) ==
    LET P == (DOMAIN F) \X (DOMAIN G)
        T == {conjunction(p[1], p[2]) : p \in P}
        prod == [p \in P |-> RMul(F[p[1]], G[p[2]])]
    IN  [t \in T |-> SumOver(prod, {p \in P : conjunction(p[1], p[2]) = t})]

\* A variant that stores each product under its target in place of adding it.
DisjunctiveProduct_overwriting(F, G) ==
    LET P == (DOMAIN F) \X (DOMAIN G)
        T == {disjunction(p[1], p[2]) : p \in P}
    IN  [t \in T |-> LET p == CHOOSE p \in P : disjunction(p[1], p[2]) = t
                     IN  RMul(F[p[1]], G[p[2]])]

\* The same double loop with the disjunction of the focal elements.
DisjunctiveProduct(F, G) ==
    LET P == (DOMAIN F) \X (DOMAIN G)
        T == {disjunction(p[1], p[2]) : p \in P}
        prod == [p \in P |-> RMul(F[p[1]], G[p[2]])]
    IN  [t \in T |-> SumOver(prod, {p \in P : disjunction(p[1], p[2]) = t})]

\* combination_smets.combination_two
smets_combination_two(F, G) == clean(ConjunctiveProduct(F, G))

\* combination_disjunctive.combination_two
disjunctive_combination_two(F, G) == clean(DisjunctiveProduct(F, G))

RECURSIVE SmetsFold(_, _)
\* combination = two(self, ms[0]); for m in ms[1:]: combination = two(combination, m)
SmetsFold(acc, rest) ==
    IF rest = << >> THEN acc
    ELSE SmetsFold(smets_combination_two(acc, Head(rest).focals), Tail(rest))

RECURSIVE DisjunctiveFold(_, _)
DisjunctiveFold(acc, rest) ==
    IF rest = << >> THEN acc
    ELSE DisjunctiveFold(disjunctive_combination_two(acc, Head(rest).focals), Tail(rest))

\* A variant that combines self with the first argument only.
combination_smets_of_two(args) ==
    Checked(SafeChecks(args), Ok(smets_combination_two(args[1].focals, args[2].focals)))

combination_smets(args) ==
    Checked(SafeChecks(args), Ok(SmetsFold(args[1].focals, Tail(args))))

combination_disjunctive(args) ==
    Checked(SafeChecks(args), Ok(DisjunctiveFold(args[1].focals, Tail(args))))

\* combination_dempster.combination_two: the safe Smets rule on (m1, m2),
\* then the empty element is popped, the rest cleaned and normalised.
\* next(iter(combination)) raises StopIteration on a dict without keys.
\* The end of that combination_two, s being what m1.combination_smets(m2) gave:
\* the empty element is popped, the rest cleaned and normalised.
RemoveConflict(s) ==
    IF s.err # "none" THEN s
    ELSE IF DOMAIN s.focals = {} THEN Raise("StopIteration")
    ELSE Ok(normalise(clean(Pop(s.focals,
                get_compatible_empty_element(AnyFocal(s.focals))))))

dempster_combination_two(F, G) == RemoveConflict(combination_smets(<<MF(F), MF(G)>>))

RECURSIVE DempsterFold(_, _)
\* The loop of combination_dempster; an exception ends it.
DempsterFold(acc, rest) ==
    IF acc.err # "none" \/ rest = << >> THEN acc
    ELSE DempsterFold(dempster_combination_two(acc.focals, Head(rest).focals), Tail(rest))

combination_dempster(args) ==
    Checked(SafeChecks(args),
            DempsterFold(dempster_combination_two(args[1].focals, args[2].focals),
                         Tail(Tail(args))))

\* combination[complete] = combination.mass(empty); combination.focals.pop(empty, None)
YagerMove(F, empty, complete) == Pop(SetItem(F, complete, mass(F, empty)), empty)

\* The end of combination_yager, s being what self.combination_smets gave.
MoveConflict(s) ==
    IF s.err # "none" THEN s
    ELSE IF DOMAIN s.focals = {} THEN Raise("StopIteration")
    ELSE Ok(YagerMove(s.focals,
                      get_compatible_empty_element(AnyFocal(s.focals)),
                      get_compatible_complete_element(AnyFocal(s.focals))))

combination_yager(args) == Checked(SafeChecks(args), MoveConflict(combination_smets(args)))

RECURSIVE static_conjunction(_)
\* Element.static_conjunction(*c) for a non-empty tuple of elements.
static_conjunction(c) ==
    IF Len(c) = 1 THEN c[1]
    ELSE conjunction(static_conjunction(SubSeq(c, 1, Len(c) - 1)), c[Len(c)])

RECURSIVE static_disjunction(_)
\* Element.static_disjunction(*c) for a non-empty tuple of elements.
static_disjunction(c) ==
    IF Len(c) = 1 THEN c[1]
    ELSE disjunction(static_disjunction(SubSeq(c, 1, Len(c) - 1)), c[Len(c)])

RECURSIVE ProductOfMasses(_, _, _)
\* functools.reduce(operator.mul, masses, 1) over the masses m.m(e) of a tuple.
ProductOfMasses(args, c, i) ==
    IF i > Len(c) THEN ROne
    ELSE RMul(mass(args[i].focals, c[i]), ProductOfMasses(args, c, i + 1))

NonEmptyOr(resultElement, c) ==
    IF element_is_empty(resultElement) THEN static_disjunction(c) ELSE resultElement

\* The element a tuple of focal elements sends its mass to under Dubois and
\* Prade's rule: the conjunction, or the disjunction when that is empty.
DuboisPradeTarget(c) == NonEmptyOr(static_conjunction(c), c)


\* itertools.product(*functions): the tuples of one focal element per source.
Tuples(args) ==
    LET N == Len(args)
        keys == UNION {DOMAIN args[i].focals : i \in 1..N}
    IN  {c \in [1..N -> keys] : \A i \in 1..N : c[i] \in DOMAIN args[i].focals}

\* The loop over the tuples C: each product of masses is added to its target.
DuboisPradeSums(args, C) ==
    [t \in {DuboisPradeTarget(c) : c \in C} |->
        SumOver([c \in C |-> ProductOfMasses(args, c, 1)],
                {c \in C : DuboisPradeTarget(c) = t})]

combination_dubois_prade(args) ==
    Checked(SafeChecks(args), Ok(clean(DuboisPradeSums(args, Tuples(args)))))

RECURSIVE AddAll(_, _)
\* for mass_function in ms: for element, mass in mass_function.items(): add_mass
AddAll(acc, rest) ==
    IF rest = << >> THEN acc
    ELSE LET G == Head(rest).focals
             next == [e \in DOMAIN acc \cup DOMAIN G |->
                         RAdd(mass(acc, e), mass(G, e))]
         IN  AddAll(next, Tail(rest))

\* for focal in combination: combination[focal] /= len(mass_functions) + 1
DividedBy(total, N) == [k \in DOMAIN total |-> RDiv(total[k], [n |-> N, d |-> 1])]

combination_average(args) ==
    Checked(SafeChecks(args),
            Ok(DividedBy(AddAll(args[1].focals, Tail(args)), Len(args))))

\* [m] * n, the list handed to the closing Dempster combination.
Repeat(x, n) == [i \in 1..n |-> x]

\* average.combination_dempster(*([average] * len(mass_functions)))
DempsterOfCopies(average, N) ==
    IF average.err # "none" THEN average
    ELSE combination_dempster(Repeat(MF(average.focals), N))

combination_murphy(args) ==
    Checked(SafeChecks(args), DempsterOfCopies(combination_average(args), Len(args)))

\* difference: self minus the other by remove_mass, entries equal to 0 dropped.
difference(F, G) ==
    LET D == [e \in DOMAIN F \cup DOMAIN G |-> RSub(mass(F, e), mass(G, e))]
    IN  [e \in {k \in DOMAIN D : D[k] # RZero} |-> D[e]]

\* matrix[e1][e2] of distance_one_mass: the Jaccard index of two elements.
Jaccard(e1, e2) ==
    IF ~element_is_empty(e1) \/ ~element_is_empty(e2)
    THEN R(cardinal(conjunction(e1, e2)), cardinal(disjunction(e1, e2)))
    ELSE ROne

\* The radicand 0.5 * diffT * matrix * diff of distance_one_mass.
DistanceRadicand(F, G) ==
    LET D == difference(F, G)
        P == (DOMAIN D) \X (DOMAIN D)
        term == [p \in P |-> RMul(RMul(D[p[1]], D[p[2]]), Jaccard(p[1], p[2]))]
    IN  RMul(R(1, 2), SumOver(term, P))

\* similarity(F, G) = round(0.5 * (cos(pi * distance) + 1), 6) is 0 exactly
\* when distance = round(sqrt(radicand), 6) lies in [0.999550, 1.000450],
\* that is when the radicand lies in [0.9995495^2, 1.0004505^2).
SimilarityLow == R(999099203, 1000000000)
SimilarityHigh == R(1000901203, 1000000000)

InZeroBand(radicand) == RLe(SimilarityLow, radicand) /\ RLt(radicand, SimilarityHigh)

similarity_is_zero(F, G) == InZeroBand(DistanceRadicand(F, G))

\* The largest k in lo..hi with k * k <= n.
RECURSIVE RootBetween(_, _, _)
RootBetween(n, lo, hi) ==
    IF lo = hi THEN lo
    ELSE LET mid == (lo + hi + 1) \div 2
         IN  IF mid * mid <= n THEN RootBetween(n, mid, hi)
             ELSE RootBetween(n, lo, mid - 1)

IntegerRoot(n) == RootBetween(n, 0, 46340)

IsSquare(n) == IntegerRoot(n) * IntegerRoot(n) = n

\* A float returned to the caller: a rational, or the root of the rational
\* q (rounded to 6 decimals) when that root is irrational.
Rational(x) == [kind |-> "float", rational |-> TRUE, value |-> x]
RoundedRoot(q) == [kind |-> "float", rational |-> FALSE, value |-> q]

\* What a call that returns no mass function hands back: a value or an
\* exception.
NoValue == [kind |-> "none"]
Value(v) == [err |-> "none", value |-> v]
RaiseValue(E) == [err |-> E, value |-> NoValue]

\* round(math.sqrt(q) / 1, 6) for the radicand q of distance_one_mass.
RoundedDistance(q) ==
    IF IsSquare(q.n) /\ IsSquare(q.d)
    THEN Rational(Round6(R(IntegerRoot(q.n), IntegerRoot(q.d))))
    ELSE RoundedRoot(q)

\* A variant that measures from the side of self only: what the other
\* source holds on elements self does not hold is left out.
distance_from_self(args) ==
    IF SafeChecks(args) # "none" THEN RaiseValue(SafeChecks(args))
    ELSE Value(RoundedDistance(DistanceRadicand(args[1].focals,
                  [e \in DOMAIN args[1].focals |-> mass(args[2].focals, e)])))

\* distance of self to one mass function.
distance(args) ==
    IF SafeChecks(args) # "none" THEN RaiseValue(SafeChecks(args))
    ELSE Value(RoundedDistance(DistanceRadicand(args[1].focals, args[2].focals)))

\* [x for x in mass_functions if x != mass_function], as the positions of
\* the sources kept for the source at position i.
OtherSources(args, i) ==
    LET Differs(j) == ~mf_eq(args[j].focals, args[i].focals)
    IN  SelectSeq([j \in Indices(args) |-> j], Differs)

\* The similarities support() adds up for the source at position i, each
\* given by the radicand of the distance it is computed from.
SupportTerms(args, i) ==
    LET others == OtherSources(args, i)
    IN  [k \in Indices(others) |->
            DistanceRadicand(args[i].focals, args[others[k]].focals)]

\* supportSum is 0 exactly when every similarity of every support is 0.
SupportSumIsZero(args) ==
    \A i \in Indices(args) :
        \A k \in Indices(SupportTerms(args, i)) : InZeroBand(SupportTerms(args, i)[k])

\* round(supports[i] / supportSum, 6) for every source.  When all the
\* similarities are one number s > 0, supports[i] is s times the number of
\* sources kept for i and the quotient is rational; otherwise the list is
\* not expressed (<< >>).
Weights(terms, count, total) ==
    IF Cardinality(UNION {{terms[i][k] : k \in Indices(terms[i])} : i \in Indices(terms)}) = 1
    THEN [i \in Indices(terms) |-> Round6(R(count[i], total))]
    ELSE << >>

RECURSIVE SumOfLengths(_)
SumOfLengths(seqs) ==
    IF seqs = << >> THEN 0 ELSE Len(Head(seqs)) + SumOfLengths(Tail(seqs))

\* The list credibility returns, with the sources each support was
\* computed against.
CredibilityList(against, terms) ==
    [kind |-> "list", against |-> against, terms |-> terms,
     weights |-> Weights(terms, [i \in Indices(terms) |-> Len(terms[i])],
                         SumOfLengths(terms))]

\* MassFunction.credibility(*args).  A source left without any other
\* source reaches support() alone, which its decorator rejects (TypeError).
credibility(args) ==
    IF SafeChecks(args) # "none" THEN RaiseValue(SafeChecks(args))
    ELSE IF \E i \in Indices(args) : OtherSources(args, i) = << >>
         THEN RaiseValue("TypeError")
    ELSE IF SupportSumIsZero(args) THEN RaiseValue("ZeroDivisionError")
    ELSE Value(CredibilityList([i \in Indices(args) |-> OtherSources(args, i)],
                               [i \in Indices(args) |-> SupportTerms(args, i)]))

\* combination_chen for two sources (self and one argument).  credibility
\* hands each source the others that are != it: an equal pair leaves support()
\* without argument, which its decorator rejects with TypeError.  Otherwise
\* both supports are the one similarity s, supportSum is 2s (a division by 0
\* when s is 0) and both credibilities are round(s / 2s, 6) = 0.5.
ChenOfTwo(F, G) ==
    IF mf_eq(F, G) THEN Raise("TypeError")
    ELSE IF similarity_is_zero(F, G) THEN Raise("ZeroDivisionError")
    ELSE combination_dempster(Repeat(MF(
            [k \in DOMAIN F \cup DOMAIN G |->
                RAdd(RMul(mass(F, k), R(1, 2)), RMul(mass(G, k), R(1, 2)))]), 2))

combination_chen(args) == Checked(SafeChecks(args), ChenOfTwo(args[1].focals, args[2].focals))

(***************************************************************************)
(* Discounting, weakening, conditioning.                                   *)
(***************************************************************************)
\* The loop of discounting / weakening: every mass scaled by 1 - alpha and
\* rounded, then alpha added (add_mass) on the element `sink`.
Scaled(F, alpha, sink) ==
    add_mass([e \in DOMAIN F |-> Round6(RMul(F[e], RSub(ROne, alpha)))], sink, alpha)

discounting(F, alpha) ==
    IF mf_is_empty(F) THEN Raise("EmptyMassFunctionError")
    ELSE IF ~(RLe(RZero, alpha) /\ RLe(alpha, ROne)) THEN Raise("ValueError")
    ELSE Ok(Scaled(F, alpha, get_compatible_complete_element(AnyFocal(F))))

weakening(F, alpha) ==
    IF mf_is_empty(F) THEN Raise("EmptyMassFunctionError")
    ELSE IF ~(RLe(RZero, alpha) /\ RLe(alpha, ROne)) THEN Raise("ValueError")
    ELSE Ok(Scaled(F, alpha, get_compatible_empty_element(AnyFocal(F))))

conditioning(F, element) ==
    IF mf_is_empty(F) THEN Raise("EmptyMassFunctionError")
    ELSE IF ~element_is_compatible(AnyFocal(F), element)
         THEN Raise("IncompatibleElementsInAMassFunctionError")
    ELSE combination_smets(<<MF(F), MF(SetItem(EmptyFocals, element, ROne))>>)

(***************************************************************************)
(* Temporisation.  Times are integers; -1 is the "never applied" marker.   *)
(* An outcome is the returned triple, or the exception raised.             *)
(***************************************************************************)
Returns(temporised, time, stored) ==
    [err |-> "none", temporised |-> temporised, new_old_time |-> time,
     new_old_mass_function |-> stored]

Raises(E) ==
    [err |-> E, temporised |-> EmptyFocals, new_old_time |-> -1,
     new_old_mass_function |-> EmptyFocals]

\* MassFunction.combination: the dispatch on the Combination enumeration.
combination(rule, args) ==
    CASE rule = "Dempster" -> combination_dempster(args)
      [] rule = "Smets" -> combination_smets(args)
      [] rule = "Disjunctive" -> combination_disjunctive(args)
      [] rule = "Yager" -> combination_yager(args)
      [] rule = "DuboisPrade" -> combination_dubois_prade(args)
      [] rule = "Average" -> combination_average(args)
      [] rule = "Murphy" -> combination_murphy(args)
      [] rule = "Chen" -> combination_chen(args)
      [] OTHER -> Raise("ValueError")

\* A variant that adopts the new mass function only when it is strictly more
\* specific than the discounted one (> in place of >=).
SpecificityChoiceStrict(discounted, F, old_time, new_time, G, got_data) ==
    IF discounted.err # "none" THEN Raises(discounted.err)
    ELSE IF ~got_data THEN Returns(discounted.focals, old_time, F)
    ELSE IF RLt(specificity(discounted.focals), specificity(G))
         THEN Returns(G, new_time, G)
    ELSE Returns(discounted.focals, old_time, F)

\* A variant that keeps what was discounted as the stored mass function.
SpecificityChoice_storing_discounted(discounted, F, old_time, new_time, G, got_data) ==
    IF discounted.err # "none" THEN Raises(discounted.err)
    ELSE IF ~got_data THEN Returns(discounted.focals, old_time, discounted.focals)
    ELSE IF RLe(specificity(discounted.focals), specificity(G))
         THEN Returns(G, new_time, G)
    ELSE Returns(discounted.focals, old_time, discounted.focals)

\* The three returns of temporisation_specificity after the discounting.
SpecificityChoice(discounted, F, old_time, new_time, G, got_data) ==
    IF discounted.err # "none" THEN Raises(discounted.err)
    ELSE IF ~got_data THEN Returns(discounted.focals, old_time, F)
    ELSE IF RLe(specificity(discounted.focals), specificity(G))
         THEN Returns(G, new_time, G)
    ELSE Returns(discounted.focals, old_time, F)

\* A variant that refuses an empty self before anything else.
temporisation_specificity_of_non_empty(F, old_time, new_time, max_time, G, got_data) ==
    IF mf_is_empty(F) THEN Raises("EmptyMassFunctionError")
    ELSE IF old_time = -1 THEN Returns(G, new_time, G)
    ELSE IF new_time - old_time > max_time THEN Returns(G, new_time, G)
    ELSE IF max_time = 0 THEN Raises("ZeroDivisionError")
    ELSE SpecificityChoice(discounting(F, R(new_time - old_time, max_time)),
                           F, old_time, new_time, G, got_data)

\* A variant without the expiry of the stored mass function after max_time.
temporisation_specificity_never_expiring(F, old_time, new_time, max_time, G, got_data) ==
    IF old_time = -1 THEN Returns(G, new_time, G)
    ELSE IF max_time = 0 THEN Raises("ZeroDivisionError")
    ELSE SpecificityChoice(discounting(F, R(new_time - old_time, max_time)),
                           F, old_time, new_time, G, got_data)

temporisation_specificity(F, old_time, new_time, max_time, G, got_data) ==
    IF old_time = -1 THEN Returns(G, new_time, G)
    ELSE IF new_time - old_time > max_time THEN Returns(G, new_time, G)
    ELSE IF max_time = 0 THEN Raises("ZeroDivisionError")
    ELSE SpecificityChoice(discounting(F, R(new_time - old_time, max_time)),
                           F, old_time, new_time, G, got_data)

\* return temporised, new_time, copy.deepcopy(temporised)
Fused(temporised, new_time) ==
    IF temporised.err # "none" THEN Raises(temporised.err)
    ELSE Returns(temporised.focals, new_time, temporised.focals)

\* A variant that fuses the new mass function whether or not it comes from
\* data.
FusionChoice_always_fusing(discounted, F, old_time, new_time, G, got_data, combination_rule) ==
    IF discounted.err # "none" THEN Raises(discounted.err)
    ELSE Fused(combination(combination_rule, <<MF(discounted.focals), MF(G)>>), new_time)

\* The two returns of temporisation_fusion after the discounting.
FusionChoice(discounted, F, old_time, new_time, G, got_data, combination_rule) ==
    IF discounted.err # "none" THEN Raises(discounted.err)
    ELSE IF ~got_data THEN Returns(discounted.focals, old_time, F)
    ELSE Fused(combination(combination_rule, <<MF(discounted.focals), MF(G)>>), new_time)

\* alpha = elapsed / max_time if elapsed < max_time else 1
FusionAlpha(elapsed, max_time) ==
    IF elapsed < max_time THEN R(elapsed, max_time) ELSE ROne

\* A variant that adopts the new mass function from max_time on.
temporisation_fusion_adopting(F, old_time, new_time, max_time, G, got_data, combination_rule) ==
    IF old_time = -1 THEN Returns(G, new_time, G)
    ELSE IF new_time - old_time >= max_time THEN Returns(G, new_time, G)
    ELSE FusionChoice(discounting(F, FusionAlpha(new_time - old_time, max_time)),
                      F, old_time, new_time, G, got_data, combination_rule)

temporisation_fusion(F, old_time, new_time, max_time, G, got_data, combination_rule) ==
    IF old_time = -1 THEN Returns(G, new_time, G)
    ELSE IF new_time - old_time < max_time /\ max_time = 0 THEN Raises("ZeroDivisionError")
    ELSE FusionChoice(discounting(F, FusionAlpha(new_time - old_time, max_time)),
                      F, old_time, new_time, G, got_data, combination_rule)

(***************************************************************************)
(* The inputs of the model.                                                *)
(***************************************************************************)
\* Masses of the valid inputs are the multiples of 1/MassUnits.
MassUnits == 2

\* The elements of the frame of two states: 00, 01, 10, 11.
Elements == {DiscreteElement(2, n) : n \in 0..3}

E00 == DiscreteElement(2, 0)
E01 == DiscreteElement(2, 1)
E10 == DiscreteElement(2, 2)
E11 == DiscreteElement(2, 3)

\* An element of another frame (the tests use DiscreteElement(4, 1)).
Foreign == DiscreteElement(3, 1)

Grid == {R(k, MassUnits) : k \in 1..MassUnits}

\* Every focal map over the frame whose masses are on the grid and sum to 1.
ValidFocals ==
    UNION {{F \in [S -> Grid] : _sum(F) = ROne} : S \in (SUBSET Elements) \ {{}}}

\* A mass whose square is below precision and above half of it: the product
\* of two of them is removed by clean(), and its loss shows at the sixth decimal.
Tiny == R(1, 1250)

OneFocal(e, m) == SetItem(EmptyFocals, e, m)
TwoFocals(e1, m1, e2, m2) == SetItem(OneFocal(e1, m1), e2, m2)

\* Focal maps with small masses: four valid ones and one of total mass Tiny.
TinyFocals ==
    { TwoFocals(E01, Tiny, E11, RSub(ROne, Tiny)),
      TwoFocals(E10, Tiny, E11, RSub(ROne, Tiny)),
      TwoFocals(E01, RSub(ROne, Tiny), E10, Tiny),
      TwoFocals(E00, RSub(ROne, Tiny), E10, Tiny),
      OneFocal(E01, Tiny) }

\* Other focal maps outside the grid: a key of mass 0 beside a valid one, a
\* sum other than 1, no mass at all, and another frame.
SpecialFocals ==
    { TwoFocals(E01, RZero, E10, ROne),
      OneFocal(E01, R(1, 2)),
      OneFocal(E11, RZero),
      EmptyFocals,
      OneFocal(Foreign, ROne) }

\* The values a caller may hold or pass: mass functions and one non-mass-function.
CoarsePool == {MF(F) : F \in ValidFocals \cup SpecialFocals} \cup {NotAMassFunction}

Pool == CoarsePool \cup {MF(F) : F \in TinyFocals}

\* The third object of a call on three: a valid mass function whose masses
\* are halves (the calls on three stay few when the grid gets finer), or one
\* of the values the checks of the safe rules refuse.
Thirds ==
    {MF(F) : F \in {G \in ValidFocals : \A e \in DOMAIN G : G[e].d <= 2}
                    \cup {OneFocal(E11, RZero), OneFocal(Foreign, ROne)}}
        \cup {NotAMassFunction}

Alphas == {R(k, 2) : k \in -1..3}

Rules == {"Dempster", "Smets", "Disjunctive", "Yager", "DuboisPrade",
          "Average", "Murphy", "Chen"}

(***************************************************************************)
(* The caller of the algebra: two objects it holds, one call on them.      *)
(***************************************************************************)
VARIABLES
    heap,   \* object id -> Python value; ids 1 and 2 are the caller's objects
    op,     \* the call made: its name, its argument ids and its parameters
    ret,    \* ids of the returned objects, << >> before a call or on a raise
    err,    \* the exception the call raised, "none" otherwise
    last,   \* the last temporisation call and its outcome
    value,  \* the value returned by a call that returns no mass function
    threads, \* the threads reading a shared element: where each one stands
    option, \* the temporisation option of a sensor: type, parameter, data
    run     \* what the sensor was given so far: the clock, the calls, the
            \* (new_time, new_mass_function) pairs received

vars == <<heap, op, ret, err, last, value, threads, option, run>>

\* What a call of the single caller leaves alone.
NoThreads == << >>
NoOption == [option_type |-> "none", parameter |-> 0, data |-> << >>]
NoRun == [clock |-> 0, calls |-> 0, received |-> {}]
others == <<threads, option, run>>

NoCall == [name |-> "none", args |-> << >>, passed |-> << >>,
           combination_rule |-> "none", alpha |-> RZero, element |-> E00,
           old_time |-> -1, new_time |-> -1, max_time |-> 0, got_data |-> FALSE,
           size |-> 0, number |-> 0, bstr |-> << >>, bigendian |-> TRUE,
           ref_list |-> << >>, states |-> {}, focal_elements |-> << >>,
           criterion |-> "none", max_card |-> 0, elements |-> << >>,
           times |-> 0, sides |-> << >>]

NoLast == [called |-> FALSE, old_time |-> -1, old_mass |-> EmptyFocals,
           new_time |-> -1, new_mass |-> EmptyFocals, got_data |-> FALSE,
           outcome |-> Raises("none")]

Init ==
    /\ heap \in [{1, 2} -> Pool]
    /\ heap[1].kind = "MassFunction"
    /\ op = NoCall
    /\ ret = << >>
    /\ err = "none"
    /\ last = NoLast
    /\ value = NoValue
    /\ threads = NoThreads
    /\ option = NoOption
    /\ run = NoRun

\* The objects of a call, self first.
Objects(h, ids) == [i \in 1..Len(ids) |-> h[ids[i]]]

\* The heap after a call that built the mass functions in `built` (a
\* sequence of focal maps): each is a new object with a new id.
Allocate(h, built) ==
    LET base == Cardinality(DOMAIN h)
    IN  [i \in DOMAIN h \cup (base + 1)..(base + Len(built)) |->
            IF i \in DOMAIN h THEN h[i] ELSE MF(built[i - base])]

\* A variant in which a call hands back the objects it was given.
NewIds_of_the_inputs(h, built) == [i \in 1..Len(built) |-> i]

NewIds(h, built) ==
    LET base == Cardinality(DOMAIN h)
    IN  [i \in 1..Len(built) |-> base + i]

\* The end of a call whose outcome is out, on the heap h the call was made
\* on: a returned mass function is a new object, an exception builds nothing.
Return(h, out) ==
    /\ heap' = Allocate(h, IF out.err = "none" THEN <<out.focals>> ELSE << >>)
    /\ ret' = NewIds(h, IF out.err = "none" THEN <<out.focals>> ELSE << >>)
    /\ err' = out.err
    /\ UNCHANGED <<last, value, others>>

\* A call of one of the eight safe rules on objects 1 and 2.
CombineTwo(rule) ==
    /\ op.name = "none"
    /\ Return(heap, combination(rule, Objects(heap, <<1, 2>>)))
    /\ op' = [NoCall EXCEPT !.name = rule, !.args = <<1, 2>>,
                            !.passed = Objects(heap, <<1, 2>>)]

\* A call of a rule on objects 1, 2 and a third one the caller builds.
\* combination_chen is modelled for two sources only.  The third source has
\* no small mass, and Murphy's rule (three products with a normalisation in
\* between) runs on sources without small masses, to keep every numerator
\* and denominator within 32-bit integers.
CombineThree(rule, third) ==
    /\ op.name = "none"
    /\ rule # "Chen"
    /\ rule = "Murphy" => heap[1] \in CoarsePool /\ heap[2] \in CoarsePool
    /\ Return(<<heap[1], heap[2], third>>, combination(rule, <<heap[1], heap[2], third>>))
    /\ op' = [NoCall EXCEPT !.name = rule, !.args = <<1, 2, 3>>,
                            !.passed = <<heap[1], heap[2], third>>]

Discount(alpha) ==
    /\ op.name = "none"
    /\ Return(heap, discounting(heap[1].focals, alpha))
    /\ op' = [NoCall EXCEPT !.name = "discounting", !.args = <<1>>,
                            !.passed = Objects(heap, <<1>>), !.alpha = alpha]

Weaken(alpha) ==
    /\ op.name = "none"
    /\ Return(heap, weakening(heap[1].focals, alpha))
    /\ op' = [NoCall EXCEPT !.name = "weakening", !.args = <<1>>,
                            !.passed = Objects(heap, <<1>>), !.alpha = alpha]

Condition(element) ==
    /\ op.name = "none"
    /\ Return(heap, conditioning(heap[1].focals, element))
    /\ op' = [NoCall EXCEPT !.name = "conditioning", !.args = <<1>>,
                            !.passed = Objects(heap, <<1>>), !.element = element]

\* The end of a temporisation call: the two returned mass functions are new
\* objects, and the call is recorded with its outcome.
ReturnTemporised(out, old_time, new_time, got_data) ==
    /\ heap' = Allocate(heap, IF out.err = "none"
                              THEN <<out.temporised, out.new_old_mass_function>>
                              ELSE << >>)
    /\ ret' = NewIds(heap, IF out.err = "none"
                           THEN <<out.temporised, out.new_old_mass_function>>
                           ELSE << >>)
    /\ err' = out.err
    /\ last' = [called |-> TRUE, old_time |-> old_time, old_mass |-> heap[1].focals,
                new_time |-> new_time, new_mass |-> heap[2].focals,
                got_data |-> got_data, outcome |-> out]
    /\ UNCHANGED <<value, others>>

\* heap[1].temporisation_specificity(old_time, new_time, max_time, heap[2], got_data)
TemporiseSpecificity(old_time, new_time, max_time, got_data) ==
    /\ op.name = "none"
    /\ heap[2].kind = "MassFunction"
    /\ ReturnTemporised(temporisation_specificity(heap[1].focals, old_time, new_time,
                                                  max_time, heap[2].focals, got_data),
                        old_time, new_time, got_data)
    /\ op' = [NoCall EXCEPT !.name = "temporisation_specificity", !.args = <<1, 2>>,
                            !.passed = Objects(heap, <<1, 2>>),
                            !.old_time = old_time, !.new_time = new_time,
                            !.max_time = max_time, !.got_data = got_data]

\* heap[1].temporisation_fusion(old_time, new_time, max_time, heap[2], got_data, rule)
TemporiseFusion(old_time, new_time, max_time, got_data, rule) ==
    /\ op.name = "none"
    /\ heap[2].kind = "MassFunction"
    /\ ReturnTemporised(temporisation_fusion(heap[1].focals, old_time, new_time,
                                             max_time, heap[2].focals, got_data, rule),
                        old_time, new_time, got_data)
    /\ op' = [NoCall EXCEPT !.name = "temporisation_fusion", !.args = <<1, 2>>,
                            !.passed = Objects(heap, <<1, 2>>),
                            !.combination_rule = rule,
                            !.old_time = old_time, !.new_time = new_time,
                            !.max_time = max_time, !.got_data = got_data]

\* The end of a call that returns a float or a list: no object is built.
ReturnValue(h, out) ==
    /\ heap' = h
    /\ ret' = << >>
    /\ err' = out.err
    /\ value' = out.value
    /\ UNCHANGED <<last, others>>

\* heap[1].distance(heap[2])
Distance ==
    /\ op.name = "none"
    /\ ReturnValue(heap, distance(Objects(heap, <<1, 2>>)))
    /\ op' = [NoCall EXCEPT !.name = "distance", !.args = <<1, 2>>,
                            !.passed = Objects(heap, <<1, 2>>)]

\* MassFunction.credibility(heap[1], heap[2])
CredibilityOfTwo ==
    /\ op.name = "none"
    /\ ReturnValue(heap, credibility(Objects(heap, <<1, 2>>)))
    /\ op' = [NoCall EXCEPT !.name = "credibility", !.args = <<1, 2>>,
                            !.passed = Objects(heap, <<1, 2>>)]

\* MassFunction.credibility(heap[1], heap[2], third)
CredibilityOfThree(third) ==
    /\ op.name = "none"
    /\ ReturnValue(<<heap[1], heap[2], third>>, credibility(<<heap[1], heap[2], third>>))
    /\ op' = [NoCall EXCEPT !.name = "credibility", !.args = <<1, 2, 3>>,
                            !.passed = <<heap[1], heap[2], third>>]

\* The end of a call that changes self (object 1) and returns nothing.
ReturnNone(out) ==
    /\ heap' = [heap EXCEPT ![1].focals = out.focals]
    /\ ret' = << >>
    /\ err' = out.err
    /\ UNCHANGED <<last, value, others>>

\* heap[1].add_mass(*focal_elements)
AddMass(focal_elements) ==
    /\ op.name = "none"
    /\ ReturnNone(add_masses(heap[1].focals, focal_elements))
    /\ op' = [NoCall EXCEPT !.name = "add_mass", !.args = <<1>>,
                            !.passed = Objects(heap, <<1>>),
                            !.focal_elements = focal_elements]

\* heap[1].remove_mass(*focal_elements)
RemoveMass(focal_elements) ==
    /\ op.name = "none"
    /\ ReturnNone(remove_masses(heap[1].focals, focal_elements))
    /\ op' = [NoCall EXCEPT !.name = "remove_mass", !.args = <<1>>,
                            !.passed = Objects(heap, <<1>>),
                            !.focal_elements = focal_elements]

\* The arguments of add_mass / remove_mass: up to MaxPairs pairs, each an
\* element of the frame or of another frame with mass 1/2, or malformed.
MaxPairs == 2
Pairs == {Pair(e, R(1, 2)) : e \in {E01, E11, Foreign}} \cup {Malformed}
PairLists == UNION {[1..n -> Pairs] : n \in 0..MaxPairs}

\* The times of the one-shot temporisation calls: a first call (-1) or a
\* state acquired at time 1, read at a time up to MaxClock, with max_time
\* one of Periods: elapsed is negative, 0, below, equal to and above the
\* shorter period, and below the longer one.
MaxClock == 4
OldTimes == {-1, 1}
NewTimes == 0..MaxClock
Periods == {2, 4}
FusionRules == {"DuboisPrade", "Dempster"}

\* The parameter (max_time) of the temporisation option of a sensor.
Parameters == {2, 3}

\* A focal map on the empty element and on three more elements.
FourFocals ==
    SetItem(SetItem(TwoFocals(E00, R(1, 4), E01, R(1, 4)), E10, R(1, 4)), E11, R(1, 4))

\* What the sensor model hands to the temporisation: valid mass functions
\* of the frame (one of them vacuous), and one without mass.
Evidences ==
    { OneFocal(E10, ROne),
      TwoFocals(E01, R(1, 2), E11, R(1, 2)),
      OneFocal(E11, ROne),
      FourFocals,
      EmptyFocals }

Next ==
    \/ \E rule \in Rules : CombineTwo(rule)
    \/ \E rule \in Rules, third \in Thirds : CombineThree(rule, third)
    \/ \E alpha \in Alphas : Discount(alpha)
    \/ \E alpha \in Alphas : Weaken(alpha)
    \/ \E element \in Elements \cup {Foreign} : Condition(element)
    \/ \E old_time \in OldTimes, new_time \in NewTimes, max_time \in Periods,
          got_data \in BOOLEAN :
            TemporiseSpecificity(old_time, new_time, max_time, got_data)
    \/ \E old_time \in OldTimes, new_time \in NewTimes, max_time \in Periods,
          got_data \in BOOLEAN, rule \in FusionRules :
            TemporiseFusion(old_time, new_time, max_time, got_data, rule)
    \/ Distance
    \/ CredibilityOfTwo
    \/ \E third \in Thirds : CredibilityOfThree(third)
    \/ \E focal_elements \in PairLists : AddMass(focal_elements)
    \/ \E focal_elements \in PairLists : RemoveMass(focal_elements)

Spec == Init /\ [][Next]_vars

(***************************************************************************)
(* The caller of element.py: two elements it holds, one call.              *)
(***************************************************************************)
\* Frames have 1..MaxFrame states.
MaxFrame == 2

\* The elements a caller can hold: built by the constructor (the cache is
\* set for the empty and the complete element only), or with their
\* cardinal already read.
ElementPool ==
    {o \in UNION {{Object(size, number, PopCount(number))}
                  \cup (IF number = 0 \/ number = Pow2(size) - 1 THEN {}
                        ELSE {Object(size, number, -1)}) :
                  size \in 1..MaxFrame, number \in 0..(Pow2(MaxFrame) - 1)} :
        o._number < Pow2(o._size)}

ElementInit ==
    /\ heap \in [{1, 2} -> ElementPool]
    /\ op = NoCall
    /\ ret = << >>
    /\ err = "none"
    /\ last = NoLast
    /\ value = NoValue
    /\ threads = NoThreads
    /\ option = NoOption
    /\ run = NoRun

\* Values returned by the methods of an element.
IntValue(k) == [kind |-> "int", value |-> k]
BoolValue(b) == [kind |-> "bool", value |-> b]
StrValue(chars) == [kind |-> "str", value |-> chars]

\* The end of a call that builds an element: the result is a new object.
ReturnElement(out) ==
    /\ heap' = IF out.err # "none" THEN heap
               ELSE [i \in DOMAIN heap \cup {Cardinality(DOMAIN heap) + 1} |->
                        IF i \in DOMAIN heap THEN heap[i] ELSE out.obj]
    /\ ret' = IF out.err # "none" THEN << >> ELSE <<Cardinality(DOMAIN heap) + 1>>
    /\ err' = out.err
    /\ value' = NoValue
    /\ UNCHANGED <<last, others>>

\* The end of a method that returns a plain value.
ReturnPlain(v) ==
    /\ ret' = << >>
    /\ err' = "none"
    /\ value' = v
    /\ UNCHANGED <<last, others>>

Construct(size, number) ==
    /\ op.name = "none"
    /\ ReturnElement(DiscreteElement_init(size, number))
    /\ op' = [NoCall EXCEPT !.name = "DiscreteElement", !.size = size,
                            !.number = number]

FromStr(bstr, bigendian) ==
    /\ op.name = "none"
    /\ ReturnElement(factory_from_str(bstr, bigendian))
    /\ op' = [NoCall EXCEPT !.name = "factory_from_str", !.bstr = bstr,
                            !.bigendian = bigendian]

FromRefList(ref_list, states) ==
    /\ op.name = "none"
    /\ ReturnElement(factory_from_ref_list(ref_list, states))
    /\ op' = [NoCall EXCEPT !.name = "factory_from_ref_list",
                            !.ref_list = ref_list, !.states = states]

Opposite ==
    /\ op.name = "none"
    /\ ReturnElement(opposite(heap[1]))
    /\ op' = [NoCall EXCEPT !.name = "opposite", !.args = <<1>>,
                            !.passed = <<heap[1]>>]

Conjunction ==
    /\ op.name = "none"
    /\ ReturnElement(object_conjunction(heap[1], heap[2]))
    /\ op' = [NoCall EXCEPT !.name = "conjunction", !.args = <<1, 2>>,
                            !.passed = <<heap[1], heap[2]>>]

Disjunction ==
    /\ op.name = "none"
    /\ ReturnElement(object_disjunction(heap[1], heap[2]))
    /\ op' = [NoCall EXCEPT !.name = "disjunction", !.args = <<1, 2>>,
                            !.passed = <<heap[1], heap[2]>>]

Exclusion ==
    /\ op.name = "none"
    /\ ReturnElement(exclusion(heap[1], heap[2]))
    /\ op' = [NoCall EXCEPT !.name = "exclusion", !.args = <<1, 2>>,
                            !.passed = <<heap[1], heap[2]>>]

\* heap[1].cardinal: the property returns the cardinal and caches it.
Cardinal ==
    /\ op.name = "none"
    /\ heap' = [heap EXCEPT ![1]._card = object_cardinal(heap[1])]
    /\ ReturnPlain(IntValue(object_cardinal(heap[1])))
    /\ op' = [NoCall EXCEPT !.name = "cardinal", !.args = <<1>>,
                            !.passed = <<heap[1]>>]

\* heap[1] == heap[2]
Equals ==
    /\ op.name = "none"
    /\ heap' = heap
    /\ ReturnPlain(BoolValue(equals(heap[1], heap[2])))
    /\ op' = [NoCall EXCEPT !.name = "equals", !.args = <<1, 2>>,
                            !.passed = <<heap[1], heap[2]>>]

\* hash(heap[1])
Hash ==
    /\ op.name = "none"
    /\ heap' = heap
    /\ ReturnPlain(IntValue(hash(heap[1])))
    /\ op' = [NoCall EXCEPT !.name = "hash", !.args = <<1>>,
                            !.passed = <<heap[1]>>]

\* str(heap[1])
Str ==
    /\ op.name = "none"
    /\ heap' = heap
    /\ ReturnPlain(StrValue(str(heap[1])))
    /\ op' = [NoCall EXCEPT !.name = "str", !.args = <<1>>,
                            !.passed = <<heap[1]>>]

\* The arguments of the constructor and of the factories: sizes and numbers
\* on both sides of every limit, the binary strings of up to MaxFrame
\* digits, the same with a line feed at the end, strings with another
\* character, and reference lists of up to MaxFrame names.
Sizes == -1..(MaxFrame + 1)
Numbers == -1..(Pow2(MaxFrame) + 1)
BinaryStrings == UNION {[1..n -> {"0", "1"}] : n \in 0..MaxFrame}
Strings ==
    BinaryStrings \cup {Append(b, "\n") : b \in BinaryStrings}
                  \cup {Append(b, "2") : b \in BinaryStrings}
Names == {"a", "b"}
RefLists == UNION {[1..n -> Names] : n \in 0..MaxFrame}
States == SUBSET (Names \cup {"z"})

ElementNext ==
    \/ \E size \in Sizes, number \in Numbers : Construct(size, number)
    \/ \E bstr \in Strings, bigendian \in BOOLEAN : FromStr(bstr, bigendian)
    \/ \E ref_list \in RefLists, states \in States : FromRefList(ref_list, states)
    \/ Opposite
    \/ Conjunction
    \/ Disjunction
    \/ Exclusion
    \/ Cardinal
    \/ Equals
    \/ Hash
    \/ Str

ElementSpec == ElementInit /\ [][ElementNext]_vars

(***************************************************************************)
(* Threads reading the property cardinal of one shared element (object 1). *)
(* A step is one read or one write of an attribute of the element; what a  *)
(* thread does on its own locals in between belongs to the step.           *)
(*   idle    -> cached | reset   if self._card != -1:                       *)
(*   cached  -> done                 return self._card                      *)
(*   reset   -> load             self._card = 0                             *)
(*   load    -> loop             n = self._number                           *)
(*   loop    -> add | final      while n != 0: if n & 1 == 1: ... n >>= 1   *)
(*   add     -> store                self._card += 1   (the read)           *)
(*   store   -> loop                 self._card += 1   (the write)          *)
(*   final   -> done             return self._card                          *)
(***************************************************************************)
Readers == 2

Thread(pc, n, loaded, result) ==
    [pc |-> pc, n |-> n, loaded |-> loaded, result |-> result]

ThreadsInit ==
    /\ heap \in [{1} -> ElementPool]
    /\ op = NoCall
    /\ ret = << >>
    /\ err = "none"
    /\ last = NoLast
    /\ value = NoValue
    /\ threads = [t \in 1..Readers |-> Thread("idle", 0, 0, -1)]
    /\ option = NoOption
    /\ run = NoRun

\* n after the bits the loop passes without touching the element: the
\* zeros below the lowest one.
RECURSIVE SkipZeros(_)
SkipZeros(n) == IF n = 0 \/ n % 2 = 1 THEN n ELSE SkipZeros(n \div 2)

\* The place of a thread whose local n is n: at the increment for the next
\* one of n, or past the loop.
AtLoop(n) == IF SkipZeros(n) = 0 THEN "final" ELSE "add"

\* if self._card != -1
CheckCache(t) ==
    /\ threads[t].pc = "idle"
    /\ threads' = [threads EXCEPT ![t].pc = IF heap[1]._card # -1 THEN "cached"
                                            ELSE "reset"]
    /\ UNCHANGED <<heap, op, ret, err, last, value, option, run>>

\* return self._card (the cache was found filled)
ReturnCached(t) ==
    /\ threads[t].pc = "cached"
    /\ threads' = [threads EXCEPT ![t].pc = "done", ![t].result = heap[1]._card]
    /\ UNCHANGED <<heap, op, ret, err, last, value, option, run>>

\* self._card = 0
ResetCache(t) ==
    /\ threads[t].pc = "reset"
    /\ heap' = [heap EXCEPT ![1]._card = 0]
    /\ threads' = [threads EXCEPT ![t].pc = "load"]
    /\ UNCHANGED <<op, ret, err, last, value, option, run>>

\* n = self._number, and the loop up to its first increment
LoadNumber(t) ==
    /\ threads[t].pc = "load"
    /\ threads' = [threads EXCEPT ![t].n = SkipZeros(heap[1]._number),
                                  ![t].pc = AtLoop(heap[1]._number)]
    /\ UNCHANGED <<heap, op, ret, err, last, value, option, run>>

\* self._card += 1: the read of self._card
ReadForIncrement(t) ==
    /\ threads[t].pc = "add"
    /\ threads' = [threads EXCEPT ![t].loaded = heap[1]._card, ![t].pc = "store"]
    /\ UNCHANGED <<heap, op, ret, err, last, value, option, run>>

\* self._card += 1: the write, then n >>= 1 and the loop up to the next
\* increment
StoreIncrement(t) ==
    /\ threads[t].pc = "store"
    /\ heap' = [heap EXCEPT ![1]._card = threads[t].loaded + 1]
    /\ threads' = [threads EXCEPT ![t].n = SkipZeros(threads[t].n \div 2),
                                  ![t].pc = AtLoop(threads[t].n \div 2)]
    /\ UNCHANGED <<op, ret, err, last, value, option, run>>

\* return self._card (after the loop)
ReturnCounted(t) ==
    /\ threads[t].pc = "final"
    /\ threads' = [threads EXCEPT ![t].pc = "done", ![t].result = heap[1]._card]
    /\ UNCHANGED <<heap, op, ret, err, last, value, option, run>>

ThreadsNext ==
    \E t \in 1..Readers :
        \/ CheckCache(t)
        \/ ReturnCached(t)
        \/ ResetCache(t)
        \/ LoadNumber(t)
        \/ ReadForIncrement(t)
        \/ StoreIncrement(t)
        \/ ReturnCounted(t)

ThreadsSpec == ThreadsInit /\ [][ThreadsNext]_vars

(***************************************************************************)
(* fromsensors.py: a sensor with one temporisation option.  Every call of  *)
(* get_evidence hands the stored (time, mass function) of the option to    *)
(* the temporisation method and stores what the method returns.            *)
(***************************************************************************)
\* DiscreteSensorModelOption(option_type, parameter) for a temporisation.
DiscreteSensorModelOption(option_type, parameter) ==
    [option_type |-> option_type, parameter |-> parameter,
     data |-> <<-1, EmptyFocals>>]

get_previous_time(o) == o.data[1]
get_previous_mass(o) == o.data[2]

\* The temporisation of get_evidence for the option o: the stored mass
\* function is self, the rule of the fusion is the default one.
Temporised(o, new_time, evidence, got_data) ==
    IF o.option_type = "temporisation_fusion"
    THEN temporisation_fusion(get_previous_mass(o), get_previous_time(o), new_time,
                              o.parameter, evidence, got_data, "DuboisPrade")
    ELSE temporisation_specificity(get_previous_mass(o), get_previous_time(o), new_time,
                                   o.parameter, evidence, got_data)

\* A variant that forgets the stored state when the temporisation raises.
Stored_reset_on_exception(o, out) ==
    IF out.err # "none" THEN <<-1, EmptyFocals>>
    ELSE <<out.new_old_time, out.new_old_mass_function>>

\* set_previous_time / set_previous_mass on what the method returned; an
\* exception leaves get_evidence before them.
Stored(o, out) ==
    IF out.err # "none" THEN o.data
    ELSE <<out.new_old_time, out.new_old_mass_function>>

\* The calls of one run.
MaxCalls == 2

FeedbackInit ==
    /\ heap = << >>
    /\ op = NoCall
    /\ ret = << >>
    /\ err = "none"
    /\ last = NoLast
    /\ value = NoValue
    /\ threads = NoThreads
    /\ option \in {DiscreteSensorModelOption(option_type, parameter) :
                        option_type \in {"temporisation_specificity",
                                         "temporisation_fusion"},
                        parameter \in Parameters}
    /\ run = NoRun

\* The end of get_evidence: what the temporisation returned is stored, and
\* the call is recorded with what it was given.
StoreAndRecord(out, new_time, evidence, got_data) ==
    /\ option' = [option EXCEPT !.data = Stored(option, out)]
    /\ err' = out.err
    /\ last' = [called |-> TRUE, old_time |-> get_previous_time(option),
                old_mass |-> get_previous_mass(option),
                new_time |-> new_time, new_mass |-> evidence, got_data |-> got_data,
                outcome |-> out]
    /\ run' = [clock |-> new_time, calls |-> run.calls + 1,
               received |-> run.received \cup {<<new_time, evidence>>}]

\* get_evidence at time new_time (time.time(), which does not go back),
\* for the evidence the sensor model gave and got_data = newMeasure != None.
GetEvidence(new_time, evidence, got_data) ==
    /\ run.calls < MaxCalls
    /\ new_time >= run.clock
    /\ StoreAndRecord(Temporised(option, new_time, evidence, got_data),
                      new_time, evidence, got_data)
    /\ op' = [NoCall EXCEPT !.name = "get_evidence", !.new_time = new_time,
                            !.got_data = got_data]
    /\ UNCHANGED <<heap, ret, value, threads>>

FeedbackNext ==
    \E new_time \in NewTimes, evidence \in Evidences, got_data \in BOOLEAN :
        GetEvidence(new_time, evidence, got_data)

FeedbackSpec == FeedbackInit /\ [][FeedbackNext]_vars

(***************************************************************************)
(* The reader of one mass function: the decision criteria, get_min and     *)
(* get_max on it, and clean().                                             *)
(***************************************************************************)
\* Masses around precision: just below it, exactly it, and far below.
BelowPrecision == R(9, 10000000)
FarBelowPrecision == R(1, 10000000)

\* Focal maps with entries clean() has to judge: masses below, at and above
\* precision, a mass of 0 and a negative mass.
SmallFocals ==
    { TwoFocals(E01, FarBelowPrecision, E11, RSub(ROne, FarBelowPrecision)),
      TwoFocals(E01, BelowPrecision, E10, precision),
      TwoFocals(E00, precision, E11, RSub(ROne, precision)),
      TwoFocals(E10, RNeg(R(1, 2)), E11, ROne),
      OneFocal(E10, BelowPrecision) }

\* A valid mass function on a frame of three states whose mass off the
\* empty element, 0.2000005, is half-way between two multiples of 10^-6.
Whole == DiscreteElement(3, 7)
HalfWayFocals ==
    SetItem(TwoFocals(Foreign, R(1, 2 * Million), Whole, R(1, 5)),
            DiscreteElement(3, 0), R(1599999, 2 * Million))

ReadPool ==
    {MF(F) : F \in ValidFocals \cup SpecialFocals \cup TinyFocals \cup SmallFocals
                    \cup {FourFocals, HalfWayFocals}}

\* The elements bel, betP and pl are asked for.
Asked == Elements \cup {Foreign, Whole}

ReadInit ==
    /\ heap \in [{1} -> ReadPool]
    /\ op = NoCall
    /\ ret = << >>
    /\ err = "none"
    /\ last = NoLast
    /\ value = NoValue
    /\ threads = NoThreads
    /\ option = NoOption
    /\ run = NoRun

\* MassFunction.get_min(heap[1].<criterion>, max_card, elements)
GetMin(criterion, max_card, elements) ==
    /\ op.name = "none"
    /\ ReturnValue(heap, get_min(criterion, heap[1].focals, max_card, elements))
    /\ op' = [NoCall EXCEPT !.name = "get_min", !.args = <<1>>,
                            !.passed = Objects(heap, <<1>>),
                            !.criterion = criterion, !.max_card = max_card,
                            !.elements = elements]

\* MassFunction.get_max(heap[1].<criterion>, max_card, elements)
GetMax(criterion, max_card, elements) ==
    /\ op.name = "none"
    /\ ReturnValue(heap, get_max(criterion, heap[1].focals, max_card, elements))
    /\ op' = [NoCall EXCEPT !.name = "get_max", !.args = <<1>>,
                            !.passed = Objects(heap, <<1>>),
                            !.criterion = criterion, !.max_card = max_card,
                            !.elements = elements]

\* heap[1].bel(element), for the sides on which the float sums fall.
Bel(element, sides) ==
    /\ op.name = "none"
    /\ ReturnValue(heap, Value(Rational(bel_float(heap[1].focals, element, sides))))
    /\ op' = [NoCall EXCEPT !.name = "bel", !.args = <<1>>, !.sides = sides,
                            !.passed = Objects(heap, <<1>>), !.element = element]

\* heap[1].betP(element)
BetP(element, sides) ==
    /\ op.name = "none"
    /\ ReturnValue(heap, Value(Rational(betP_float(heap[1].focals, element, sides))))
    /\ op' = [NoCall EXCEPT !.name = "betP", !.args = <<1>>, !.sides = sides,
                            !.passed = Objects(heap, <<1>>), !.element = element]

\* heap[1].pl(element)
Pl(element, sides) ==
    /\ op.name = "none"
    /\ ReturnValue(heap, Value(Rational(pl_float(heap[1].focals, element, sides))))
    /\ op' = [NoCall EXCEPT !.name = "pl", !.args = <<1>>, !.sides = sides,
                            !.passed = Objects(heap, <<1>>), !.element = element]

\* heap[1].clean(): self gets a new dict.  The call can be made a second
\* time; op.passed keeps self as it was before the first call.
Clean ==
    /\ op.name = "none" \/ (op.name = "clean" /\ op.times < 2)
    /\ heap' = [heap EXCEPT ![1].focals = clean(heap[1].focals)]
    /\ ret' = << >>
    /\ err' = "none"
    /\ op' = [NoCall EXCEPT !.name = "clean", !.args = <<1>>,
                            !.passed = IF op.name = "none" THEN Objects(heap, <<1>>)
                                       ELSE op.passed,
                            !.times = op.times + 1]
    /\ UNCHANGED <<last, value, others>>

\* The candidates handed to get_min / get_max: iterator_powerset(2), and
\* every sequence of up to MaxCandidates elements of the frame or of
\* another frame.
MaxCandidates == 2
Powerset == <<E00, E01, E10, E11>>
Candidates ==
    UNION {[1..n -> Elements \cup {Foreign}] : n \in 0..MaxCandidates} \cup {Powerset}
Criteria == {"mass", "bel", "betP", "pl", "q"}
MaxCards == -1..3

\* The factors of the discounting and weakening of the one mass function:
\* the ends of [0, 1], a half, a third (elapsed / max_time for a period of
\* 3) and a value on each side of the interval.
ReadAlphas == {R(-1, 2), RZero, R(1, 3), R(1, 2), ROne, R(3, 2)}

ReadNext ==
    \/ \E criterion \in Criteria, max_card \in MaxCards, elements \in Candidates :
          GetMin(criterion, max_card, elements)
    \/ \E criterion \in Criteria, max_card \in MaxCards, elements \in Candidates :
          GetMax(criterion, max_card, elements)
    \/ \E element \in Asked, sides \in Sides \X Sides : Bel(element, sides)
    \/ \E element \in Asked, sides \in Sides \X Sides : BetP(element, sides)
    \/ \E element \in Asked, sides \in Sides \X Sides : Pl(element, sides)
    \/ Clean
    \/ \E alpha \in ReadAlphas : Discount(alpha)
    \/ \E alpha \in ReadAlphas : Weaken(alpha)

ReadSpec == ReadInit /\ [][ReadNext]_vars

(***************************************************************************)
(* Properties of the algebra (specification Spec).                         *)
(***************************************************************************)
\* The call made was rule `name` on n objects (self included).
Called(name, n) == op.name = name /\ Len(op.args) = n

\* The focal map of the i-th object of the call.
Arg(i) == heap[op.args[i]].focals

\* The focal map of the returned mass function.
Result == heap[ret[1]].focals

\* Every object of the call is a mass function that is_valid() accepts.
ArgsValid ==
    \A i \in Indices(op.args) :
        heap[op.args[i]].kind = "MassFunction" /\ is_valid(Arg(i))

\* Every object of the call is defined on the frame of two states.
ArgsOnFrame == \A i \in Indices(op.args) : DOMAIN Arg(i) \subseteq Elements

IsRule == op.name \in Rules

\* C1: Yager's combination of valid mass functions of one frame returns a
\* mass function of total mass 1, also when the inputs carry mass on the
\* complete element.
C1_YagerPreservesTotalMass ==
    (op.name = "Yager" /\ ArgsValid /\ ArgsOnFrame)
        => (err = "none" /\ has_valid_sum(Result))

\* The conflict of two focal maps: the mass their conjunctive combination
\* sends to the empty element, before any cleaning.
Conflict(F, G) ==
    LET P == {p \in (DOMAIN F) \X (DOMAIN G) : element_is_empty(conjunction(p[1], p[2]))}
    IN  SumOver([p \in P |-> RMul(F[p[1]], G[p[2]])], P)

DempsterOfTwoValid ==
    /\ Called("Dempster", 2) /\ ArgsValid /\ ArgsOnFrame
    /\ RLt(Conflict(Arg(1), Arg(2)), ROne)

\* C2 as stated: Dempster's combination of two valid mass functions whose
\* conflict is below 1 has a valid sum and no mass on the empty element.
C2_DempsterValidSum ==
    DempsterOfTwoValid
        => (err = "none" /\ has_valid_sum(Result) /\ mass(Result, E00) = RZero)

\* Some product of the two inputs that the conjunction sends to a non-empty
\* element is kept by clean().
SurvivesCleaning(F, G) ==
    \E t \in DOMAIN smets_combination_two(F, G) : ~element_is_empty(t)

\* C2 amended: the same, for inputs whose conjunctive combination keeps a
\* non-empty element of mass at least precision.
C2_DempsterValidSumWhenSomethingSurvives ==
    (DempsterOfTwoValid /\ SurvivesCleaning(Arg(1), Arg(2)))
        => (err = "none" /\ has_valid_sum(Result) /\ mass(Result, E00) = RZero)

C2_Witness ==
    /\ DempsterOfTwoValid /\ SurvivesCleaning(Arg(1), Arg(2))
    /\ RLt(RZero, Conflict(Arg(1), Arg(2)))
    /\ err = "none" /\ has_valid_sum(Result)

\* The conjunctive combination of all the inputs puts all its mass on the
\* empty element.
TotalConflict ==
    LET s == combination_smets(Objects(heap, op.args))
    IN  /\ s.err = "none"
        /\ DOMAIN s.focals = {E00}

\* C3: on inputs in total conflict combination_dempster raises nothing and
\* returns a mass function without mass, for two inputs and for more.
C3_DempsterTotalConflictReturnsEmpty ==
    (op.name = "Dempster" /\ TotalConflict)
        => (err = "none" /\ mf_is_empty(Result))

\* Two outcomes a caller cannot tell apart: the same exception, or two mass
\* functions that == (MassFunction.__eq__) holds equal.
SameOutcome(x, y) ==
    /\ x.err = y.err
    /\ x.err = "none" => mf_eq(x.focals, y.focals)

LeftAssociated(rule, a, b, c) ==
    LET ab == combination(rule, <<a, b>>)
    IN  IF ab.err # "none" THEN ab ELSE combination(rule, <<MF(ab.focals), c>>)

RightAssociated(rule, a, b, c) ==
    LET bc == combination(rule, <<b, c>>)
    IN  IF bc.err # "none" THEN bc ELSE combination(rule, <<a, MF(bc.focals)>>)

AssociativeCase ==
    /\ Called("Smets", 3) \/ Called("Disjunctive", 3)
    /\ SafeChecks(Objects(heap, op.args)) = "none"

LosesMass(rule, F, G) ==
    LET raw == IF rule = "Smets" THEN ConjunctiveProduct(F, G)
               ELSE DisjunctiveProduct(F, G)
    IN  \E t \in DOMAIN raw : RLt(RZero, raw[t]) /\ RLt(raw[t], precision)

DifferentFrames(F, G) ==
    \E e1 \in DOMAIN F, e2 \in DOMAIN G : e1.size # e2.size

\* C6: each of the eight safe rules raises TypeError when an argument is no
\* MassFunction, otherwise EmptyMassFunctionError when self or an argument
\* has total mass 0, otherwise IncompatibleMassFunctionsError when two of
\* the mass functions are on different frames; a call that fails this way
\* built nothing and left every object as it was passed.
C6_SafeRulesCheckTheirArguments ==
    IsRule =>
        LET notMF == \E i \in Indices(op.args) : op.passed[i].kind # "MassFunction"
            zero == \E i \in Indices(op.args) : _sum(op.passed[i].focals) = RZero
            frames == \E i, j \in Indices(op.args) :
                        DifferentFrames(op.passed[i].focals, op.passed[j].focals)
            failed == notMF \/ zero \/ frames
        IN  /\ notMF => err = "TypeError"
            /\ (~notMF /\ zero) => err = "EmptyMassFunctionError"
            /\ (~notMF /\ ~zero /\ frames) => err = "IncompatibleMassFunctionsError"
            /\ failed => /\ ret = << >>
                         /\ DOMAIN heap = {op.args[i] : i \in Indices(op.args)}
                         /\ \A i \in Indices(op.args) : heap[op.args[i]] = op.passed[i]

C6_Witness ==
    /\ Called("Murphy", 3)
    /\ err = "EmptyMassFunctionError"
    /\ _sum(Arg(1)) = RZero /\ DOMAIN Arg(1) # {}
    /\ is_valid(Arg(2)) /\ is_valid(Arg(3))

FoldedRules == {"Smets", "Dempster", "Disjunctive", "Yager"}

\* A call of a rule on three valid mass functions of the frame.
ThreeValid == Len(op.args) = 3 /\ ArgsValid /\ ArgsOnFrame

\* The call on three objects and the left fold of calls on two give the
\* same outcome.
EqualsLeftFold ==
    SameOutcome(combination(op.name, op.passed),
                LeftAssociated(op.name, op.passed[1], op.passed[2], op.passed[3]))

\* C8 as stated: for Smets, Dempster, Disjunctive and Yager the call on N
\* mass functions equals the left fold of the call on two.
C8_NaryIsLeftFold ==
    (op.name \in FoldedRules /\ ThreeValid) => EqualsLeftFold

\* C8 amended: the same for Smets, Dempster and Disjunctive; Yager's rule
\* on N mass functions is their conjunctive combination in which, once at
\* the end, the mass of the complete element is replaced by the conflict.
C8_NaryIsLeftFoldButYager ==
    /\ (op.name \in FoldedRules \ {"Yager"} /\ ThreeValid) => EqualsLeftFold
    /\ (op.name = "Yager" /\ ThreeValid) =>
          LET s == combination_smets(op.passed)
          IN  /\ s.err = "none" /\ err = "none"
              /\ Result = YagerMove(s.focals, E00, E11)

C8_Witness ==
    /\ op.name = "Dempster" /\ ThreeValid /\ err = "none"
    /\ Arg(1) # Arg(2) /\ Arg(2) # Arg(3) /\ Arg(1) # Arg(3)
    /\ RLt(RZero, Conflict(Arg(1), Arg(2)))
    /\ Cardinality(DOMAIN Result) >= 2

\* A temporisation call on a stored state (old_time is not -1) made of a
\* valid mass function, with a valid new mass function of the same frame.
TemporisationCase ==
    /\ op.name \in {"temporisation_specificity", "temporisation_fusion"}
    /\ op.old_time # -1
    /\ ArgsValid /\ ArgsOnFrame

Elapsed == op.new_time - op.old_time

\* What the call returned: the temporised mass function, the time to store
\* and the mass function to store.
ReturnedIs(temporised, time, stored) ==
    /\ err = "none" /\ Len(ret) = 2
    /\ heap[ret[1]].focals = temporised
    /\ last.outcome.new_old_time = time
    /\ heap[ret[2]].focals = stored

\* The same, up to the equality of mass functions (==).
ReturnedEquals(temporised, time, stored) ==
    /\ err = "none" /\ Len(ret) = 2
    /\ mf_eq(heap[ret[1]].focals, temporised)
    /\ last.outcome.new_old_time = time
    /\ mf_eq(heap[ret[2]].focals, stored)

IsVacuous(F) ==
    /\ DOMAIN F = DOMAIN Arg(1) \cup {E11}
    /\ \A e \in DOMAIN F : F[e] = IF e = E11 THEN ROne ELSE RZero

SpecificityCase ==
    /\ TemporisationCase /\ op.name = "temporisation_specificity"
    /\ 0 <= Elapsed /\ Elapsed < op.max_time

\* self discounted by alpha = elapsed / max_time.
Discounted == discounting(Arg(1), R(Elapsed, op.max_time)).focals

\* C10 as stated: before max_time self is discounted by elapsed / max_time;
\* without data the discounted function is returned and old_time stays; with
\* data new_mass_function is returned, with new_time, only when its
\* specificity is higher than that of the discounted function, and
\* otherwise the discounted function is returned and old_time stays.
C10_NewAdoptedOnlyWhenMoreSpecific ==
    SpecificityCase =>
        IF op.got_data /\ RLt(specificity(Discounted), specificity(Arg(2)))
        THEN ReturnedEquals(Arg(2), op.new_time, Arg(2))
        ELSE ReturnedEquals(Discounted, op.old_time, Arg(1))

\* C10 amended: with data new_mass_function is returned when its
\* specificity is at least that of the discounted function.
C10_NewAdoptedWhenAtLeastAsSpecific ==
    SpecificityCase =>
        IF op.got_data /\ RLe(specificity(Discounted), specificity(Arg(2)))
        THEN ReturnedIs(Arg(2), op.new_time, Arg(2))
        ELSE ReturnedIs(Discounted, op.old_time, Arg(1))

C10_Witness ==
    /\ SpecificityCase /\ op.got_data /\ Elapsed > 0
    /\ specificity(Discounted) = specificity(Arg(2))
    /\ Discounted # Arg(2)
    /\ ReturnedIs(Arg(2), op.new_time, Arg(2))

\* The fusion strategy on a stored state.
FusionCase == TemporisationCase /\ op.name = "temporisation_fusion"

\* min(elapsed / max_time, 1)
MinAlpha ==
    IF RLt(R(Elapsed, op.max_time), ROne) THEN R(Elapsed, op.max_time) ELSE ROne

\* The call ended as the combination `fused` did: with its exception, or
\* returning its result, which is stored with new_time.
ReturnedFused(fused) ==
    IF fused.err # "none" THEN err = fused.err
    ELSE ReturnedIs(fused.focals, op.new_time, fused.focals)

\* The call ended as the fusion strategy describes, given the outcome of
\* the discounting of self.
ReturnedAfterDiscounting(discounted) ==
    IF discounted.err # "none" THEN err = discounted.err
    ELSE IF ~op.got_data THEN ReturnedIs(discounted.focals, op.old_time, Arg(1))
    ELSE ReturnedFused(combination(op.combination_rule,
                                   <<MF(discounted.focals), MF(Arg(2))>>))

\* C11: the fusion strategy on a stored state (old_time is not -1) discounts
\* self by alpha = min(elapsed / max_time, 1); without data it returns the
\* discounted function and the stored state stays (old_time, self); with
\* data it returns the combination of the discounted function with
\* new_mass_function under the selected rule and the stored state becomes
\* (new_time, that combination).  An exception of the discounting or of the
\* combination is the exception of the call.
C11_FusionStrategy ==
    FusionCase => ReturnedAfterDiscounting(discounting(Arg(1), MinAlpha))

C11_Witness ==
    /\ FusionCase /\ op.got_data /\ op.combination_rule = "DuboisPrade"
    /\ 0 < Elapsed /\ Elapsed < op.max_time
    /\ err = "none" /\ Len(ret) = 2
    /\ last.outcome.new_old_time = op.new_time /\ op.new_time # op.old_time
    /\ heap[ret[2]].focals = heap[ret[1]].focals
    /\ ~mf_eq(heap[ret[1]].focals, Arg(2))
    /\ ~mf_eq(heap[ret[1]].focals, discounting(Arg(1), MinAlpha).focals)

\* A first call of a temporisation strategy: old_time is -1.
FirstCall ==
    /\ op.name \in {"temporisation_specificity", "temporisation_fusion"}
    /\ op.old_time = -1

\* C12: on the first call of either strategy (old_time = -1) the result is
\* (copy of new_mass_function, new_time, copy of new_mass_function), whatever
\* self (even an empty mass function), max_time and got_data are, and no
\* exception is raised.
C12_FirstCallAdoptsNew ==
    FirstCall =>
        /\ ReturnedIs(Arg(2), op.new_time, Arg(2))
        /\ ret[1] # op.args[2] /\ ret[2] # op.args[2] /\ ret[1] # ret[2]

C12_Witness ==
    /\ FirstCall /\ op.name = "temporisation_specificity"
    /\ mf_is_empty(Arg(1)) /\ ~op.got_data /\ op.max_time = 4
    /\ is_valid(Arg(2))
    /\ ReturnedIs(Arg(2), op.new_time, Arg(2))

\* The mass functions of the call are non-empty and mutually compatible.
NonEmptyCompatible == SafeChecks(op.passed) = "none"

RECURSIVE SumOfSeq(_)
SumOfSeq(xs) == IF xs = << >> THEN RZero ELSE RAdd(Head(xs), SumOfSeq(Tail(xs)))

\* x is 1 within precision.
IsOneWithinPrecision(x) ==
    RLe(RSub(ROne, precision), x) /\ RLe(x, RAdd(ROne, precision))

\* C13: credibility on two or more non-empty, mutually compatible mass
\* functions returns one weight per source and the weights sum to 1 within
\* precision, also when the list holds equal mass functions or sources at
\* distance 1 from each other.
C13_CredibilityWeightsSumToOne ==
    (op.name = "credibility" /\ NonEmptyCompatible) =>
        /\ err = "none"
        /\ value.kind = "list"
        /\ Len(value.against) = Len(op.args)
        /\ value.weights # << >> =>
              /\ Len(value.weights) = Len(op.args)
              /\ IsOneWithinPrecision(SumOfSeq(value.weights))

\* The positions of a list of n sources other than position i, in order.
OtherPositions(n, i) == [k \in 1..(n - 1) |-> IF k < i THEN k ELSE k + 1]

\* C14: in credibility the support of the source at position i is computed
\* against exactly the N-1 sources at the other positions, also when some
\* of them have the focal elements and masses of source i.
C14_SupportAgainstTheOtherPositions ==
    (op.name = "credibility" /\ NonEmptyCompatible /\ err = "none") =>
        \A i \in Indices(op.args) :
            value.against[i] = OtherPositions(Len(op.args), i)

\* A distance call on non-empty, compatible mass functions.
DistanceCase == op.name = "distance" /\ NonEmptyCompatible

Mutation == op.name \in {"add_mass", "remove_mass"}

\* Some given pair is malformed, incompatible with another given pair, or
\* incompatible with a focal element self held before the call.
SomePairRefused ==
    \/ \E i \in Indices(op.focal_elements) : ~op.focal_elements[i].numeric
    \/ \E i, j \in Indices(op.focal_elements) :
          op.focal_elements[i].element.size # op.focal_elements[j].element.size
    \/ \E i \in Indices(op.focal_elements) :
          \E e \in DOMAIN op.passed[1].focals :
              e.size # op.focal_elements[i].element.size

\* The mass self holds on e after adding to (sign 1) or removing from
\* (sign -1) what it held before every given pair on e.
MassAfter(e, sign) ==
    LET on == {i \in Indices(op.focal_elements) : op.focal_elements[i].element = e}
    IN  RAdd(mass(op.passed[1].focals, e),
             RMul(R(sign, 1),
                  SumOver([i \in on |-> op.focal_elements[i].value], on)))

\* C20: add_mass and remove_mass are all-or-nothing: when a given pair is
\* malformed, incompatible with another given pair or with a focal element
\* already stored, the call raises and self keeps exactly the focal
\* elements and masses it had, even if earlier pairs of the call were
\* valid; otherwise every pair is applied.
C20_AddRemoveAllOrNothing ==
    Mutation =>
        /\ err # "none" <=> SomePairRefused
        /\ err # "none" => heap[1] = op.passed[1]
        /\ err = "none" =>
              /\ DOMAIN heap[1].focals = DOMAIN op.passed[1].focals
                    \cup {op.focal_elements[i].element : i \in Indices(op.focal_elements)}
              /\ \A e \in DOMAIN heap[1].focals :
                    heap[1].focals[e] =
                        MassAfter(e, IF op.name = "add_mass" THEN 1 ELSE -1)
        /\ ret = << >>

C20_Witness ==
    /\ op.name = "add_mass" /\ Len(op.focal_elements) = 2
    /\ op.focal_elements[1].numeric
    /\ op.focal_elements[1].element \notin DOMAIN op.passed[1].focals
    /\ \A e \in DOMAIN op.passed[1].focals :
          e.size = op.focal_elements[1].element.size
    /\ DOMAIN op.passed[1].focals # {}
    /\ op.focal_elements[2].numeric
    /\ op.focal_elements[2].element.size # op.focal_elements[1].element.size
    /\ err = "IncompatibleElementsInAMassFunctionError"
    /\ heap[1] = op.passed[1]

(***************************************************************************)
(* Properties of the elements (specification ElementSpec).                 *)
(***************************************************************************)
\* The elements of the heap.
ElementsHeld == {heap[i] : i \in DOMAIN heap}

\* The call compared two elements with ==.
Compared == op.name = "equals"

\* C16 as stated: equality and the hash depend on the encoding only: two
\* elements with the same encoding compare equal with == and have the same
\* hash, whatever their frame sizes.
C16_EqualityOnEncodingOnly ==
    (Compared /\ op.passed[1]._number = op.passed[2]._number) =>
        /\ value = BoolValue(TRUE)
        /\ hash(op.passed[1]) = hash(op.passed[2])

\* C16 amended: the hash is the encoding, so two elements with the same
\* encoding have the same hash whatever their frame sizes; == holds exactly
\* when the frame sizes and the encodings are both the same.
C16_EqualityOnFrameAndEncoding ==
    /\ Compared =>
          /\ value = BoolValue(op.passed[1]._size = op.passed[2]._size
                                /\ op.passed[1]._number = op.passed[2]._number)
          /\ op.passed[1]._number = op.passed[2]._number
                => hash(op.passed[1]) = hash(op.passed[2])
    /\ op.name = "hash" => value = IntValue(op.passed[1]._number)

C16_Witness ==
    /\ Compared
    /\ op.passed[1]._number = op.passed[2]._number
    /\ op.passed[1]._number # 0
    /\ op.passed[1]._size # op.passed[2]._size
    /\ value = BoolValue(FALSE)
    /\ hash(op.passed[1]) = hash(op.passed[2])

\* 0 <= encoding < 2^frame_size
InRange(o) == o._size > 0 /\ 0 <= o._number /\ o._number < Pow2(o._size)

\* C17: DiscreteElement(size, number) is rejected with a construction error
\* exactly when size <= 0 or number is outside [0, 2^size), and every
\* element obtained from the constructor, factory_from_str,
\* factory_from_ref_list, conjunction, disjunction, opposite and exclusion
\* satisfies 0 <= encoding < 2^frame_size.
C17_EncodingWithinFrame ==
    /\ op.name = "DiscreteElement" =>
          /\ err \in {"none", "ValueError", "IncompatibleSizeAndNumberError"}
          /\ err # "none" <=>
                (op.size <= 0 \/ op.number < 0 \/ op.number >= Pow2(op.size))
          /\ err = "none" =>
                /\ heap[ret[1]]._size = op.size
                /\ heap[ret[1]]._number = op.number
    /\ \A o \in ElementsHeld : InRange(o)

C17_Witness ==
    /\ op.name = "DiscreteElement"
    /\ op.size > 0 /\ op.number = Pow2(op.size)
    /\ err = "IncompatibleSizeAndNumberError"
    /\ ret = << >>

\* C18: the cardinal of e.opposite() is frame_size minus the cardinal of
\* e, however e was built and whether or not its cardinal was read before,
\* and the cardinal of every element is the population count of its
\* encoding.
C18_CardinalOfOpposite ==
    /\ (op.name = "opposite" /\ err = "none") =>
          object_cardinal(heap[ret[1]])
              = op.passed[1]._size - object_cardinal(op.passed[1])
    /\ \A o \in ElementsHeld : object_cardinal(o) = PopCount(o._number)
    /\ op.name = "cardinal" =>
          /\ value = IntValue(PopCount(op.passed[1]._number))
          /\ heap[1]._card = PopCount(op.passed[1]._number)

C18_Witness ==
    /\ op.name = "opposite" /\ err = "none"
    /\ op.passed[1]._card = 0
    /\ heap[ret[1]]._number = Pow2(op.passed[1]._size) - 1
    /\ object_cardinal(heap[ret[1]]) = op.passed[1]._size
    /\ op.passed[1]._size > 1

\* e is read back from the string chars, in the given byte order.
ReadsBack(e, chars, bigendian) ==
    /\ factory_from_str(chars, bigendian).err = "none"
    /\ equals(factory_from_str(chars, bigendian).obj, e)
    /\ equals(e, factory_from_str(chars, bigendian).obj)
    /\ factory_from_str(chars, bigendian).obj._size = e._size

\* chars is the big-endian binary string of e on exactly frame_size
\* characters.
IsBinaryStringOf(chars, e) ==
    /\ Len(chars) = e._size
    /\ \A i \in 1..Len(chars) :
          chars[i] = Bit((e._number \div Pow2(Len(chars) - i)) % 2)

\* C19: for every element e, str(e) is the big-endian binary string of
\* exactly frame_size characters, factory_from_str(str(e)) == e with the
\* same frame size, and the reversed string read with bigendian=False gives
\* the same element.
C19_StringRoundTrip ==
    /\ \A e \in ElementsHeld :
          /\ IsBinaryStringOf(str(e), e)
          /\ ReadsBack(e, str(e), TRUE)
          /\ ReadsBack(e, Reversed(str(e)), FALSE)
    /\ op.name = "str" => value = StrValue(str(op.passed[1]))

C19_Witness ==
    /\ op.name = "factory_from_str" /\ ~op.bigendian /\ err = "none"
    /\ op.bstr = Reversed(str(heap[1]))
    /\ op.bstr # str(heap[1])
    /\ Head(str(heap[1])) = "0"
    /\ equals(heap[ret[1]], heap[1])
    /\ ret[1] # 1

(***************************************************************************)
(* Properties of the reader of a mass function (specification ReadSpec).   *)
(***************************************************************************)
\* The value of the criterion of the call on its i-th candidate.
CandidateValue(i) == Criterion(op.criterion, op.passed[1].focals, op.elements[i])

\* The i-th candidate has a cardinal in (0, max_card].
Eligible(i) ==
    /\ 0 < PopCount(op.elements[i].number)
    /\ PopCount(op.elements[i].number) <= op.max_card

\* The i-th candidate is eligible and no eligible candidate has a lower
\* (sign 1) or a higher (sign -1) value.
Extremal(i, sign) ==
    /\ Eligible(i)
    /\ \A j \in Indices(op.elements) :
          Eligible(j) =>
              IF sign = 1 THEN RLe(CandidateValue(i), CandidateValue(j))
              ELSE RLe(CandidateValue(j), CandidateValue(i))

\* The couples (element, value) of the extremal candidates, in the order of
\* the sequence.
ExtremalCouples(sign) ==
    LET IsExtremal(i) == Extremal(i, sign)
        positions == SelectSeq([i \in Indices(op.elements) |-> i], IsExtremal)
    IN  [k \in Indices(positions) |->
            <<op.elements[positions[k]], CandidateValue(positions[k])>>]

\* C21: get_min / get_max return exactly the elements of the candidate
\* sequence whose cardinal is in (0, max_card] and whose criterion value is
\* the minimum / maximum over those candidates, all ties included and the
\* empty element never returned; they raise ValueError when max_card <= 0.
C21_ExtremaOfCandidates ==
    op.name \in {"get_min", "get_max"} =>
        IF op.max_card <= 0 THEN err = "ValueError"
        ELSE /\ err = "none"
             /\ value.kind = "list"
             /\ value.items = ExtremalCouples(IF op.name = "get_min" THEN 1 ELSE -1)
             /\ \A k \in Indices(value.items) : ~element_is_empty(value.items[k][1])

C21_Witness ==
    /\ op.name = "get_min" /\ op.criterion = "pl" /\ op.max_card = 1
    /\ op.elements = Powerset
    /\ err = "none"
    /\ Len(value.items) = 2
    /\ value.items[1][1] = E01 /\ value.items[2][1] = E10
    /\ RLt(RZero, value.items[1][2])
    /\ RLt(value.items[1][2], pl(op.passed[1].focals, E11))

\* A discounting or weakening call the methods accept: self is not empty
\* and 0 <= alpha <= 1.
ScalingCase ==
    /\ op.name \in {"discounting", "weakening"}
    /\ ~mf_is_empty(op.passed[1].focals)
    /\ RLe(RZero, op.alpha) /\ RLe(op.alpha, ROne)

\* The element that receives alpha: the complete element for discounting,
\* the empty element for weakening.
Sink ==
    IF op.name = "discounting"
    THEN get_compatible_complete_element(AnyFocal(op.passed[1].focals))
    ELSE get_compatible_empty_element(AnyFocal(op.passed[1].focals))

\* (1 - alpha) * m(e), plus alpha on the sink.
ScaledMass(e) ==
    RAdd(RMul(RSub(ROne, op.alpha), mass(op.passed[1].focals, e)),
         IF e = Sink THEN op.alpha ELSE RZero)

\* x and y differ by at most half of precision (the error of a rounding to
\* 6 decimals).
WithinRounding(x, y) ==
    /\ RLe(RSub(x, y), R(1, 2 * Million))
    /\ RLe(RSub(y, x), R(1, 2 * Million))

\* C22: for a non-empty mass function m and 0 <= alpha <= 1,
\* discounting(alpha) gives every focal element f the mass (1 - alpha) * m(f)
\* (up to the rounding to 6 decimals) plus alpha added on the complete
\* element, and weakening(alpha) does the same with alpha added on the empty
\* element; a valid input therefore gives a result of total mass 1 (a sum
\* has_valid_sum() accepts).
C22_ScalingConservesMass ==
    ScalingCase =>
        /\ err = "none"
        /\ DOMAIN Result = DOMAIN op.passed[1].focals \cup {Sink}
        /\ \A e \in DOMAIN Result : WithinRounding(Result[e], ScaledMass(e))
        /\ is_valid(op.passed[1].focals) => has_valid_sum(Result)

\* The entries of self, before the first clean(), whose mass is not below
\* precision.
KeptByClean == {e \in DOMAIN op.passed[1].focals :
                    ~RLt(op.passed[1].focals[e], precision)}

\* C23: clean() removes exactly the entries whose mass is below precision
\* (1e-6) and keeps every other entry with its mass unchanged; calling
\* clean() a second time changes nothing.
C23_CleanRemovesBelowPrecision ==
    op.name = "clean" =>
        /\ DOMAIN heap[1].focals = KeptByClean
        /\ \A e \in KeptByClean : heap[1].focals[e] = op.passed[1].focals[e]
        /\ clean(heap[1].focals) = heap[1].focals
        /\ err = "none" /\ ret = << >>

C23_Witness ==
    /\ op.name = "clean" /\ op.times = 2
    /\ \E e \in DOMAIN op.passed[1].focals :
          /\ RLt(RZero, op.passed[1].focals[e])
          /\ e \notin DOMAIN heap[1].focals
    /\ \E e \in DOMAIN heap[1].focals : heap[1].focals[e] = precision

\* bel, betP or pl was asked of self for op.element.
DecisionCall == op.name \in {"bel", "betP", "pl"}
Self == op.passed[1].focals
NonNegative(F) == \A f \in DOMAIN F : RLe(RZero, F[f])

\* What the three functions give for op.element: the value returned by the
\* call made, and for the other two the float results on the same sides.
Decision(name) ==
    IF op.name = name THEN value.value
    ELSE CASE name = "bel" -> bel_float(Self, op.element, op.sides)
           [] name = "betP" -> betP_float(Self, op.element, op.sides)
           [] name = "pl" -> pl_float(Self, op.element, op.sides)

\* C29: for a mass function with non-negative masses and every element e,
\* bel(e) <= betP(e) <= pl(e); all three are 0 when the mass function is
\* empty, and bel and betP are 0 when e is the empty element.
C29_BeliefPignisticPlausibility ==
    (DecisionCall /\ NonNegative(Self)) =>
        /\ err = "none" /\ value.rational
        /\ RLe(Decision("bel"), Decision("betP"))
        /\ RLe(Decision("betP"), Decision("pl"))
        /\ mf_is_empty(Self) => value.value = RZero
        /\ (element_is_empty(op.element) /\ op.name # "pl") => value.value = RZero

(***************************************************************************)
(* Properties of the shared element (specification ThreadsSpec).           *)
(***************************************************************************)
\* C24: the lazy cardinal cache is safe without synchronisation: when
\* several threads read the cardinal of the same shared element whose cache
\* is not yet filled, every read returns the population count of the
\* encoding; no reader observes a partially computed cardinal.
C24_EveryReadIsThePopulationCount ==
    \A t \in DOMAIN threads :
        threads[t].pc = "done" => threads[t].result = PopCount(heap[1]._number)

(***************************************************************************)
(* Properties of the fed-back temporisation (specification FeedbackSpec).  *)
(***************************************************************************)
\* The new_time values the sensor was called with so far.
TimesReceived == {r[1] : r \in run.received}

\* C25: over a run of temporisation calls (either strategy) in which the
\* returned (new_old_time, new_old_mass_function) is fed back as the next
\* old_time and self, and new_time never decreases, the stored timestamp
\* never decreases and is always -1 or one of the new_time values supplied
\* so far.
C25_StoredTimeNeverDecreases ==
    /\ get_previous_time(option) \in {-1} \cup TimesReceived
    /\ last.called => last.old_time <= get_previous_time(option)

C25_Witness ==
    /\ option.option_type = "temporisation_fusion" /\ run.calls = 2
    /\ last.old_time >= 0
    /\ get_previous_time(option) > last.old_time
    /\ get_previous_time(option) = last.new_time
    /\ Cardinality(TimesReceived) = 2

\* A call of a run of the specificity strategy was made.
SpecificityRun == option.option_type = "temporisation_specificity" /\ last.called

\* C26: specificity strategy, max_time > 0, non-decreasing times: after
\* every call new_time minus the stored timestamp is at most max_time.
C26_StoredNeverStale ==
    SpecificityRun =>
        /\ option.parameter > 0
        /\ last.new_time - get_previous_time(option) <= option.parameter

C26_Witness ==
    /\ SpecificityRun /\ run.calls = 2
    /\ last.new_time - get_previous_time(option) = option.parameter
    /\ get_previous_time(option) = last.old_time
    /\ err = "none"
    /\ last.outcome.temporised # get_previous_mass(option)

\* C27: specificity strategy: the stored mass function is always an
\* unmodified copy of the new_mass_function received at the call whose
\* new_time is the stored timestamp; a discounted function is returned to
\* the caller but never stored.
C27_StoredIsAReceivedFunction ==
    SpecificityRun =>
        /\ \/ option.data = <<-1, EmptyFocals>>
           \/ <<get_previous_time(option), get_previous_mass(option)>> \in run.received
        /\ (err = "none" /\ last.outcome.temporised # last.new_mass) =>
              /\ last.outcome.temporised
                    = discounting(last.old_mass,
                                  R(last.new_time - last.old_time, option.parameter)).focals
              /\ option.data = <<last.old_time, last.old_mass>>

C27_Witness ==
    /\ SpecificityRun /\ run.calls = 2 /\ err = "none"
    /\ 0 < last.new_time - last.old_time
    /\ last.new_time - last.old_time < option.parameter
    /\ last.got_data
    /\ last.outcome.temporised # last.new_mass
    /\ last.outcome.temporised # last.old_mass
    /\ option.data = <<last.old_time, last.old_mass>>
    /\ \A r \in run.received : r[2] # last.outcome.temporised

\* Every new_mass_function of the run is valid and on the frame.
ValidRun ==
    /\ last.called
    /\ \A r \in run.received :
          r[1] >= 0 /\ is_valid(r[2]) /\ DOMAIN r[2] \subseteq Elements

\* C28: in a fed-back run started with old_time = -1, with max_time > 0,
\* non-negative non-decreasing times and every new_mass_function valid and
\* on the same frame, no call raises and both the returned and the stored
\* mass functions are valid after every call, for the specificity strategy
\* and for the fusion strategy with its default rule.
C28_RunStaysValid ==
    (ValidRun /\ option.parameter > 0) =>
        /\ err = "none"
        /\ is_valid(last.outcome.temporised)
        /\ is_valid(get_previous_mass(option))

(***************************************************************************)
(* Conservation of mass by the cross-product rules (specification Spec).   *)
(***************************************************************************)
CrossProductRules == {"Smets", "Disjunctive", "DuboisPrade"}

\* A cross-product rule was called and returned, on non-negative masses.
CrossProductCall ==
    /\ op.name \in CrossProductRules /\ err = "none"
    /\ \A i \in Indices(op.args) : NonNegative(Arg(i))

RECURSIVE ProductOfTotals(_)
\* The product of the total masses of the first i inputs.
ProductOfTotals(i) ==
    IF i = 0 THEN ROne ELSE RMul(ProductOfTotals(i - 1), _sum(Arg(i)))

\* The entries accumulated by the add_mass loops of the call, before each
\* clean(): one map per combination_two, or the one map of Dubois-Prade.
Accumulated ==
    CASE op.name = "Smets" ->
           {ConjunctiveProduct(Arg(1), Arg(2))} \cup
           (IF Len(op.args) = 3
            THEN {ConjunctiveProduct(smets_combination_two(Arg(1), Arg(2)), Arg(3))}
            ELSE {})
      [] op.name = "Disjunctive" ->
           {DisjunctiveProduct(Arg(1), Arg(2))} \cup
           (IF Len(op.args) = 3
            THEN {DisjunctiveProduct(disjunctive_combination_two(Arg(1), Arg(2)), Arg(3))}
            ELSE {})
      [] op.name = "DuboisPrade" ->
           {DuboisPradeSums(op.passed, Tuples(op.passed))}

NothingBelowPrecision ==
    \A A \in Accumulated : \A e \in DOMAIN A : RLe(precision, A[e])

\* The mass function carries mass on the empty element.
MassOnEmpty(F) == \E e \in DOMAIN F : element_is_empty(e) /\ RLt(RZero, F[e])

\* C30: for non-negative inputs the total mass of the result of Smets,
\* Disjunctive and Dubois-Prade combination never exceeds the product of the
\* inputs' total masses and equals it when no accumulated entry is below
\* precision; Disjunctive and Dubois-Prade put mass on the empty element
\* only when every input carries mass on the empty element.
C30_CrossProductsConserveMass ==
    CrossProductCall =>
        /\ RLe(_sum(Result), ProductOfTotals(Len(op.args)))
        /\ NothingBelowPrecision => _sum(Result) = ProductOfTotals(Len(op.args))
        /\ (op.name # "Smets" /\ MassOnEmpty(Result)) =>
              \A i \in Indices(op.args) : MassOnEmpty(Arg(i))

C30_Witness ==
    /\ CrossProductCall /\ op.name = "DuboisPrade" /\ Len(op.args) = 3
    /\ RLt(RZero, _sum(Result))
    /\ RLt(_sum(Result), ProductOfTotals(3))
    /\ \E i \in 1..3 : MassOnEmpty(Arg(i))
    /\ ~MassOnEmpty(Result)

====
